---------------------------- MODULE Spec2Model ----------------------------
(***************************************************************************)
(* Otakudesu REST API: the episode streaming-link resolution               *)
(* (scraper.js: getEpisodeStreaming, getNonce, extractMirrorLinks,         *)
(* fetchIframeUrl), the caching route wrapper (routes.js: withCache and    *)
(* the /episode, /anime and /search routes) and the helpers of utils.js.   *)
(*                                                                         *)
(* JavaScript runs every callback to completion, so one action of the      *)
(* model is one callback of the event loop together with the promise       *)
(* continuations (microtasks) it releases: the arrival of an HTTP request, *)
(* the arrival of one upstream reply, the firing of a back-off timer.      *)
(* Strings are sequences of one-character strings; error messages are      *)
(* sequences of words.  null is the string "null".                         *)
(***************************************************************************)
EXTENDS Integers, Sequences, FiniteSets, TLC

(***************************************************************************)
(* Bounds of the model.                                                    *)
(***************************************************************************)
\* number of HTTP requests that can be in flight at once
MaxRequests == 2
\* the clock stops advancing at MaxTicks * TickSeconds seconds
MaxTicks == 3
\* seconds that pass in one step of the clock
TickSeconds == 90

(***************************************************************************)
(* Program constants.                                                      *)
(***************************************************************************)
\* config.cache.routeCacheTTL (seconds)
TTLSearch == 600
TTLAnime == 300
TTLEpisode == 180
\* retryRequest's defaults
DefaultMaxRetries == 2
DefaultDelay == 1000

NULL == "null"

(***************************************************************************)
(* utils.js                                                                *)
(***************************************************************************)
\* the character class [a-zA-Z0-9\-_] over the model's alphabet
SlugChars == {"a", "b", "-", "_"}
\* the class \s
SpaceChars == {" "}
\* the class [<>"'&]
StrippedChars == {"<", ">", "&"}

RECURSIVE FilterChars(_, _)
\* s.replace(/[C]/g, ''): s without the characters of C
FilterChars(s, C) ==
  IF s = <<>> THEN <<>>
  ELSE IF Head(s) \in C THEN FilterChars(Tail(s), C)
       ELSE <<Head(s)>> \o FilterChars(Tail(s), C)

RECURSIVE TrimLeft(_)
TrimLeft(s) ==
  IF s # <<>> /\ Head(s) \in SpaceChars THEN TrimLeft(Tail(s)) ELSE s

RECURSIVE TrimRight(_)
TrimRight(s) ==
  IF s # <<>> /\ s[Len(s)] \in SpaceChars
  THEN TrimRight(SubSeq(s, 1, Len(s) - 1)) ELSE s

\* String.prototype.trim
Trim(s) == TrimRight(TrimLeft(s))

RECURSIVE CollapseSpaces(_)
\* s.replace(/\s+/g, ' '): every run of white space becomes one blank
CollapseSpaces(s) ==
  IF s = <<>> THEN <<>>
  ELSE IF Head(s) \in SpaceChars
       THEN <<" ">> \o CollapseSpaces(TrimLeft(s))
       ELSE <<Head(s)>> \o CollapseSpaces(Tail(s))

\* s.substring(0, n)
Substring0(s, n) == SubSeq(s, 1, IF Len(s) < n THEN Len(s) ELSE n)

\* utils.sanitizeQuery; an absent q parameter is the empty string
sanitizeQuery(query) ==
  IF query = <<>> THEN <<>>
  ELSE Substring0(CollapseSpaces(FilterChars(Trim(query), StrippedChars)), 100)

\* utils.isValidSlug: /^[a-zA-Z0-9\-_]+$/
isValidSlug(slug) ==
  /\ slug # <<>>
  /\ \A i \in 1..Len(slug) : slug[i] \in SlugChars

\* one argument of generateCacheKey: replace(/[^a-zA-Z0-9\-_]/g, '_')
SanitizeArg(arg) ==
  [i \in 1..Len(arg) |-> IF arg[i] \in SlugChars THEN arg[i] ELSE "_"]

\* utils.generateCacheKey(prefix, arg): `${prefix}:${sanitizedArgs.join(':')}`
generateCacheKey(prefix, arg) == <<prefix, ":">> \o SanitizeArg(arg)


(***************************************************************************)
(* Errors.  An error is [code, message, status]; status 0 means the error  *)
(* carries no response.                                                    *)
(***************************************************************************)
\* axios: the request timed out (timeout: 25000)
TimeoutError ==
  [code |-> "ECONNABORTED",
   message |-> <<"timeout", "of", "25000ms", "exceeded">>, status |-> 0]

\* axios: the connection failed
NetworkError ==
  [code |-> "ECONNRESET", message |-> <<"socket", "hang", "up">>, status |-> 0]

\* axios: validateStatus rejected the response
StatusError(status) ==
  [code |-> "ERR_BAD_RESPONSE",
   message |-> <<"Request", "failed", "with", "status", "code", ToString(status)>>,
   status |-> status]

\* new Error(message)
PlainError(message) == [code |-> "none", message |-> message, status |-> 0]

\* String.prototype.toLowerCase, word by word
toLowerCase(message) ==
  LET LowerWord(w) ==
        CASE w = "Not" -> "not"
          [] w = "Found" -> "found"
          [] w = "Episode" -> "episode"
          [] w = "Anime" -> "anime"
          [] w = "Request" -> "request"
          [] w = "Timeout" -> "timeout"
          [] OTHER -> w
  IN [i \in 1..Len(message) |-> LowerWord(message[i])]

\* String.prototype.includes: the words of needle occur consecutively
includes(message, needle) ==
  \E i \in 0..(Len(message) - Len(needle)) :
    \A j \in 1..Len(needle) : message[i + j] = needle[j]

\* the mutant of handleError: the 'not found' rule is missing
handleErrorNoNotFound(error) ==
  IF error.code = "ECONNABORTED" \/ includes(error.message, <<"timeout">>)
  THEN [status |-> 408, message |-> "Request Timeout"]
  ELSE IF error.status # 0 /\ error.status = 404
  THEN [status |-> 404, message |-> "Content Not Found on the target server."]
  ELSE IF error.status # 0 /\ error.status >= 400
  THEN [status |-> error.status, message |-> "The target server responded with status"]
  ELSE [status |-> 500, message |-> "Internal Server Error"]

\* the mutant of handleError: the response-status rule comes before the
\* timeout rule
handleErrorStatusFirst(error) ==
  IF error.status # 0 /\ error.status = 404
  THEN [status |-> 404, message |-> "Content Not Found on the target server."]
  ELSE IF error.status # 0 /\ error.status >= 400
  THEN [status |-> error.status, message |-> "The target server responded with status"]
  ELSE IF error.code = "ECONNABORTED" \/ includes(error.message, <<"timeout">>)
  THEN [status |-> 408, message |-> "Request Timeout"]
  ELSE IF includes(toLowerCase(error.message), <<"not", "found">>)
  THEN [status |-> 404, message |-> "Content Not Found"]
  ELSE [status |-> 500, message |-> "Internal Server Error"]

\* utils.handleError
handleError(error) ==
  IF error.code = "ECONNABORTED" \/ includes(error.message, <<"timeout">>)
  THEN [status |-> 408, message |-> "Request Timeout"]
  ELSE IF error.status # 0 /\ error.status = 404
  THEN [status |-> 404, message |-> "Content Not Found on the target server."]
  ELSE IF error.status # 0 /\ error.status >= 400
  THEN [status |-> error.status, message |-> "The target server responded with status"]
  ELSE IF includes(toLowerCase(error.message), <<"not", "found">>)
  THEN [status |-> 404, message |-> "Content Not Found"]
  ELSE [status |-> 500, message |-> "Internal Server Error"]

(***************************************************************************)
(* The HTTP client.  What the network delivers is a raw reply              *)
(* [net, status, body]: net is "ok" when a response arrived.  The client   *)
(* turns it into a fulfilled response or a rejection.                      *)
(***************************************************************************)
\* axios.create({ validateStatus: (status) => status < 500 })
validateStatus(status) == status < 500

\* the outcome of httpClient.get / httpClient.post for a raw reply
httpClient(raw) ==
  IF raw.net = "timeout" THEN [ok |-> FALSE, error |-> TimeoutError]
  ELSE IF raw.net = "reset" THEN [ok |-> FALSE, error |-> NetworkError]
  ELSE IF validateStatus(raw.status)
  THEN [ok |-> TRUE, status |-> raw.status, data |-> raw.body]
  ELSE [ok |-> FALSE, error |-> StatusError(raw.status)]

\* the mutant of retryDecision: one more attempt is allowed
retryDecisionOneMore(error, i, maxRetries) ==
  IF i = maxRetries + 1 THEN "throw"
  ELSE IF error.status >= 400 /\ error.status # 429 THEN "throw"
  ELSE "retry"

\* retryRequest's catch block: "throw" or "retry" for the error of attempt i
retryDecision(error, i, maxRetries) ==
  IF i = maxRetries THEN "throw"
  ELSE IF error.status >= 400 /\ error.status # 429 THEN "throw"
  ELSE "retry"


(***************************************************************************)
(* JavaScript values that the scraper returns.                             *)
(***************************************************************************)
\* the empty property map
NoProps == [k \in {} |-> <<>>]
\* an array and a plain object; [] and {} are different values
JArray(items) == [t |-> "array", items |-> items, props |-> NoProps]
JObject(props) == [t |-> "object", items |-> <<>>, props |-> props]
\* Object.keys
Keys(value) == DOMAIN value.props
\* the mutant of SetProp: the write replaces the object, the properties
\* written before are lost
SetPropAlone(props, k, v) == [x \in {k} |-> v]

\* obj[k] = v
SetProp(props, k, v) ==
  [x \in (DOMAIN props) \cup {k} |-> IF x = k THEN v ELSE props[x]]

(***************************************************************************)
(* The payload codec.  A text is a sequence of one-character strings, a    *)
(* buffer a sequence of bytes.  Only printable ASCII occurs: a byte        *)
(* outside 32..126 decodes to the replacement character.                   *)
(***************************************************************************)
\* the printable ASCII characters, code 32 first ("grave" is code 96)
Ascii ==
  <<
    " ", "!", "\"", "#", "$", "%", "&", "'", "(", ")", "*", "+", ",", "-",
    ".", "/", "0", "1", "2", "3", "4", "5", "6", "7", "8", "9", ":", ";",
    "<", "=", ">", "?", "@", "A", "B", "C", "D", "E", "F", "G", "H", "I",
    "J", "K", "L", "M", "N", "O", "P", "Q", "R", "S", "T", "U", "V", "W",
    "X", "Y", "Z", "[", "\\", "]", "^", "_", "grave", "a", "b", "c", "d", "e",
    "f", "g", "h", "i", "j", "k", "l", "m", "n", "o", "p", "q", "r", "s",
    "t", "u", "v", "w", "x", "y", "z", "{", "|", "}", "~"
  >>

\* the base64 alphabet, value 0 first
Base64Alphabet ==
  <<
    "A", "B", "C", "D", "E", "F", "G", "H", "I", "J", "K", "L", "M", "N",
    "O", "P", "Q", "R", "S", "T", "U", "V", "W", "X", "Y", "Z", "a", "b",
    "c", "d", "e", "f", "g", "h", "i", "j", "k", "l", "m", "n", "o", "p",
    "q", "r", "s", "t", "u", "v", "w", "x", "y", "z", "0", "1", "2", "3",
    "4", "5", "6", "7", "8", "9", "+", "/"
  >>

IndexOf(seq, x) == CHOOSE i \in 1..Len(seq) : seq[i] = x
InSeq(seq, x) == \E i \in 1..Len(seq) : seq[i] = x

\* the UTF-8 encoding of an ASCII text, and toString('utf-8')
Utf8Encode(text) == [i \in 1..Len(text) |-> 31 + IndexOf(Ascii, text[i])]
Utf8Decode(bytes) ==
  [i \in 1..Len(bytes) |->
     IF bytes[i] \in 32..126 THEN Ascii[bytes[i] - 31] ELSE "\\uFFFD"]

RECURSIVE ToBase64(_)
\* the base64 text of a buffer: three bytes give four characters, a rest
\* of one or two bytes is padded with "="
ToBase64(bytes) ==
  IF bytes = <<>> THEN <<>>
  ELSE IF Len(bytes) = 1
  THEN <<Base64Alphabet[(bytes[1] \div 4) + 1],
         Base64Alphabet[((bytes[1] % 4) * 16) + 1], "=", "=">>
  ELSE IF Len(bytes) = 2
  THEN <<Base64Alphabet[(bytes[1] \div 4) + 1],
         Base64Alphabet[((bytes[1] % 4) * 16 + (bytes[2] \div 16)) + 1],
         Base64Alphabet[((bytes[2] % 16) * 4) + 1], "=">>
  ELSE <<Base64Alphabet[(bytes[1] \div 4) + 1],
         Base64Alphabet[((bytes[1] % 4) * 16 + (bytes[2] \div 16)) + 1],
         Base64Alphabet[((bytes[2] % 16) * 4 + (bytes[3] \div 64)) + 1],
         Base64Alphabet[(bytes[3] % 64) + 1]>>
       \o ToBase64(SubSeq(bytes, 4, Len(bytes)))

\* the mutant of FromSextets: a last group of fewer than four characters
\* is dropped
RECURSIVE FromSextetsWholeGroups(_)
FromSextetsWholeGroups(s) ==
  IF Len(s) < 4 THEN <<>>
  ELSE <<s[1] * 4 + (s[2] \div 16), (s[2] % 16) * 16 + (s[3] \div 4),
         (s[3] % 4) * 64 + s[4]>>
       \o FromSextetsWholeGroups(SubSeq(s, 5, Len(s)))

RECURSIVE FromSextets(_)
\* the bytes of a sequence of 6-bit values: four values give three bytes,
\* a last group of two or three gives one or two
FromSextets(s) ==
  IF Len(s) < 2 THEN <<>>
  ELSE IF Len(s) = 2 THEN <<s[1] * 4 + (s[2] \div 16)>>
  ELSE IF Len(s) = 3
  THEN <<s[1] * 4 + (s[2] \div 16), (s[2] % 16) * 16 + (s[3] \div 4)>>
  ELSE <<s[1] * 4 + (s[2] \div 16), (s[2] % 16) * 16 + (s[3] \div 4),
         (s[3] % 4) * 64 + s[4]>>
       \o FromSextets(SubSeq(s, 5, Len(s)))

\* Buffer.from(content, 'base64'): the characters that carry data are those
\* before the first "=", the ones outside the alphabet (white space)
\* ignored; the URL-safe "-" and "_" are accepted
BufferFromBase64(chars) ==
  LET first == CHOOSE i \in 1..(Len(chars) + 1) :
                 /\ i = Len(chars) + 1 \/ chars[i] = "="
                 /\ \A j \in 1..(i - 1) : chars[j] # "="
      data == SelectSeq(SubSeq(chars, 1, first - 1),
                        LAMBDA c : InSeq(Base64Alphabet, c) \/ c \in {"-", "_"})
      Base64Value(ch) ==
        CASE ch = "-" -> 62
          [] ch = "_" -> 63
          [] OTHER -> IndexOf(Base64Alphabet, ch) - 1
  IN FromSextets([i \in 1..Len(data) |-> Base64Value(data[i])])

(***************************************************************************)
(* JSON.  A value is [t, s, n, m]: a string (t = "str", characters s), a   *)
(* natural number ("num", n), a literal ("true", "false", "null"), an      *)
(* array ("arr", elements m) or an object ("obj", m its members [k, v] in  *)
(* insertion order).                                                       *)
(***************************************************************************)
JStr(chars) == [t |-> "str", s |-> chars, n |-> 0, m |-> <<>>]
JNum(n) == [t |-> "num", s |-> <<>>, n |-> n, m |-> <<>>]
JLit(name) == [t |-> name, s |-> <<>>, n |-> 0, m |-> <<>>]
JArr(elements) == [t |-> "arr", s |-> <<>>, n |-> 0, m |-> elements]
JObj(members) == [t |-> "obj", s |-> <<>>, n |-> 0, m |-> members]

Digits == <<"0", "1", "2", "3", "4", "5", "6", "7", "8", "9">>

RECURSIVE NumberText(_)
\* the decimal text of a natural number
NumberText(n) ==
  IF n < 10 THEN <<Digits[n + 1]>>
  ELSE NumberText(n \div 10) \o <<Digits[(n % 10) + 1]>>

RECURSIVE QuoteChars(_)
\* the characters of a string literal: the quote and the backslash escaped
QuoteChars(chars) ==
  IF chars = <<>> THEN <<>>
  ELSE (IF Head(chars) \in {"\"", "\\"} THEN <<"\\", Head(chars)>> ELSE <<Head(chars)>>)
       \o QuoteChars(Tail(chars))

RECURSIVE JSONstringify(_)
RECURSIVE MembersText(_)
RECURSIVE ElementsText(_)
\* the members of an object and the elements of an array, comma-separated
MembersText(members) ==
  IF members = <<>> THEN <<>>
  ELSE <<"\"">> \o QuoteChars(Head(members).k) \o <<"\"", ":">>
       \o JSONstringify(Head(members).v)
       \o (IF Len(members) = 1 THEN <<>> ELSE <<",">> \o MembersText(Tail(members)))
ElementsText(elements) ==
  IF elements = <<>> THEN <<>>
  ELSE JSONstringify(Head(elements))
       \o (IF Len(elements) = 1 THEN <<>> ELSE <<",">> \o ElementsText(Tail(elements)))

\* JSON.stringify: the JSON text of a value
JSONstringify(v) ==
  CASE v.t = "str" -> <<"\"">> \o QuoteChars(v.s) \o <<"\"">>
    [] v.t = "num" -> NumberText(v.n)
    [] v.t = "obj" -> <<"{">> \o MembersText(v.m) \o <<"}">>
    [] v.t = "arr" -> <<"[">> \o ElementsText(v.m) \o <<"]">>
    [] OTHER -> CASE v.t = "true" -> <<"t", "r", "u", "e">>
                  [] v.t = "false" -> <<"f", "a", "l", "s", "e">>
                  [] OTHER -> <<"n", "u", "l", "l">>

\* a parse step: ok with the value and the rest of the text, or a failure
Parsed(v, rest) == [ok |-> TRUE, v |-> v, rest |-> rest]
ParseFailure == [ok |-> FALSE, v |-> JLit("null"), rest |-> <<>>]

RECURSIVE SkipSpace(_)
SkipSpace(s) == IF s # <<>> /\ Head(s) = " " THEN SkipSpace(Tail(s)) ELSE s

RECURSIVE ReadChars(_, _)
\* the characters of a string literal up to its closing quote; the escapes
\* of the quote, the backslash and the slash are read, a text with another
\* escape is outside the model
ReadChars(s, acc) ==
  IF s = <<>> THEN ParseFailure
  ELSE IF Head(s) = "\"" THEN Parsed(JStr(acc), Tail(s))
  ELSE IF Head(s) = "\\"
  THEN IF Len(s) >= 2 /\ s[2] \in {"\"", "\\", "/"}
       THEN ReadChars(SubSeq(s, 3, Len(s)), Append(acc, s[2]))
       ELSE ParseFailure
  ELSE ReadChars(Tail(s), Append(acc, Head(s)))

RECURSIVE ReadDigits(_, _)
ReadDigits(s, n) ==
  IF s # <<>> /\ InSeq(Digits, Head(s))
  THEN ReadDigits(Tail(s), 10 * n + (IndexOf(Digits, Head(s)) - 1))
  ELSE Parsed(JNum(n), s)

\* the literal word at the head of s
ReadLiteral(s, word, name) ==
  IF Len(s) >= Len(word) /\ SubSeq(s, 1, Len(word)) = word
  THEN Parsed(JLit(name), SubSeq(s, Len(word) + 1, Len(s)))
  ELSE ParseFailure

RECURSIVE ParseValue(_)
RECURSIVE ParseMembers(_, _)
RECURSIVE ParseElements(_, _)
\* the members of an object from the first key on, up to the closing brace
ParseMembers(s, acc) ==
  IF s = <<>> \/ Head(s) # "\"" THEN ParseFailure
  ELSE LET key == ReadChars(Tail(s), <<>>)
           colon == SkipSpace(key.rest)
           val == ParseValue(Tail(colon))
           next == SkipSpace(val.rest)
       IN IF ~key.ok \/ colon = <<>> \/ Head(colon) # ":" THEN ParseFailure
          ELSE IF ~val.ok \/ next = <<>> THEN ParseFailure
          ELSE IF Head(next) = "}"
          THEN Parsed(JObj(Append(acc, [k |-> key.v.s, v |-> val.v])), Tail(next))
          ELSE IF Head(next) = ","
          THEN ParseMembers(SkipSpace(Tail(next)),
                            Append(acc, [k |-> key.v.s, v |-> val.v]))
          ELSE ParseFailure

\* the elements of an array from the first on, up to the closing bracket
ParseElements(s, acc) ==
  LET val == ParseValue(s)
      next == SkipSpace(val.rest)
  IN IF ~val.ok \/ next = <<>> THEN ParseFailure
     ELSE IF Head(next) = "]" THEN Parsed(JArr(Append(acc, val.v)), Tail(next))
     ELSE IF Head(next) = "," THEN ParseElements(Tail(next), Append(acc, val.v))
     ELSE ParseFailure

\* one JSON value at the head of the text (numbers: naturals, no leading
\* zero)
ParseValue(s0) ==
  LET s == SkipSpace(s0)
  IN IF s = <<>> THEN ParseFailure
     ELSE IF Head(s) = "\"" THEN ReadChars(Tail(s), <<>>)
     ELSE IF Head(s) = "0" THEN Parsed(JNum(0), Tail(s))
     ELSE IF InSeq(Digits, Head(s)) THEN ReadDigits(s, 0)
     ELSE IF Head(s) = "{"
     THEN IF SkipSpace(Tail(s)) # <<>> /\ Head(SkipSpace(Tail(s))) = "}"
          THEN Parsed(JObj(<<>>), Tail(SkipSpace(Tail(s))))
          ELSE ParseMembers(SkipSpace(Tail(s)), <<>>)
     ELSE IF Head(s) = "["
     THEN IF SkipSpace(Tail(s)) # <<>> /\ Head(SkipSpace(Tail(s))) = "]"
          THEN Parsed(JArr(<<>>), Tail(SkipSpace(Tail(s))))
          ELSE ParseElements(Tail(s), <<>>)
     ELSE IF Head(s) = "t" THEN ReadLiteral(s, <<"t", "r", "u", "e">>, "true")
     ELSE IF Head(s) = "f" THEN ReadLiteral(s, <<"f", "a", "l", "s", "e">>, "false")
     ELSE IF Head(s) = "n" THEN ReadLiteral(s, <<"n", "u", "l", "l">>, "null")
     ELSE ParseFailure

\* JSON.parse: ok is FALSE when it throws; text after the value is an error
JSONparse(text) ==
  LET parsed == ParseValue(text)
  IN IF parsed.ok /\ SkipSpace(parsed.rest) = <<>>
     THEN [ok |-> TRUE, v |-> parsed.v]
     ELSE [ok |-> FALSE, v |-> JLit("null")]

\* the members of an object as a key/value map: of two members with one
\* key the later counts
KeyValueMap(members) ==
  [k \in {members[i].k : i \in 1..Len(members)} |->
     members[CHOOSE i \in 1..Len(members) :
               /\ members[i].k = k
               /\ \A j \in (i + 1)..Len(members) : members[j].k # k].v]

\* fetchIframeUrl's decoding of data-content:
\* JSON.parse(Buffer.from(content, 'base64').toString('utf-8'))
ParsePayload(content) == JSONparse(Utf8Decode(BufferFromBase64(content)))

\* the encoding of a payload by the site: the base64 of its JSON text
EncodePayload(p) == ToBase64(Utf8Encode(JSONstringify(p)))

(***************************************************************************)
(* The parsed episode page.  A page is                                     *)
(*   [title, iframe, tabs, downloads, broken]                              *)
(* tabs: the <a> elements of .mirrorstream .tabs li, in document order,    *)
(*   each [quality, href, anchors]; href "#" is a target that is not a     *)
(*   valid selector; anchors are the <a> of the tab's panel, each          *)
(*   [name, content] with content the data-content attribute.              *)
(* downloads: the <li> of .download ul, each [quality, links].             *)
(* broken: the parser throws while the download section is read.           *)
(* Contents: "P1".."P3" are base64 of a JSON object, "S" is base64 of a    *)
(* JSON value that is no object, "G" does not decode to JSON, "" is an     *)
(* absent or empty attribute.                                              *)
(***************************************************************************)
ObjectContents == {"P1", "P2", "P3"}
ScalarContents == {"S"}
GarbageContents == {"G"}

\* the id parameter that payload content carries
PayloadId(content) ==
  CASE content = "P1" -> "1" [] content = "P2" -> "2" [] content = "P3" -> "3"
    [] OTHER -> "none"

\* the mutant of DecodePayload: a payload that does not parse yields no
\* exception but an empty parameter map
DecodePayloadLenient(content) == [ok |-> TRUE, id |-> PayloadId(content)]

\* the data-content attribute that a content stands for: the encoding of
\* {"id":"1"}, {"id":"2"}, {"id":"3"}, of the JSON number 7, and of the
\* text {oops
ContentChars(content) ==
  CASE content \in ObjectContents ->
         EncodePayload(JObj(<<[k |-> <<"i", "d">>, v |-> JStr(<<PayloadId(content)>>)]>>))
    [] content \in ScalarContents -> ToBase64(Utf8Encode(<<"7">>))
    [] OTHER -> ToBase64(Utf8Encode(<<"{", "o", "o", "p", "s">>))

\* the id parameter that the spread { ...payload } puts into the request
\* body: the id member of an object, nothing for a value that is no object
SpreadId(v) ==
  IF v.t = "obj" /\ \E i \in 1..Len(v.m) : v.m[i].k = <<"i", "d">> /\ v.m[i].v.t = "str"
  THEN KeyValueMap(v.m)[<<"i", "d">>].s[1]
  ELSE "none"

\* JSON.parse(Buffer.from(content, 'base64').toString('utf-8')) followed by
\* the spread { ...payload }: ok is FALSE when JSON.parse throws; spreading
\* a value that is no object adds no id parameter
DecodePayload(content) ==
  LET payload == ParsePayload(ContentChars(content))
  IN IF payload.ok THEN [ok |-> TRUE, id |-> SpreadId(payload.v)]
     ELSE [ok |-> FALSE, id |-> "none"]

\* Buffer.from(text, 'base64').toString('utf-8') of the resolver's data
\* field, and the encoding the upstream applies
Base64Encode(text) == [b64 |-> text]
Base64Decode(data) == data.b64

\* html.match(/src="([^"]+)"/): the fragment is a sequence of tokens, the
\* token after "src=" is the attribute's value
MatchSrc(html) ==
  IF \E i \in 1..(Len(html) - 1) : html[i] = "src=" /\ html[i + 1] # ""
  THEN html[(CHOOSE i \in 1..(Len(html) - 1) :
               /\ html[i] = "src=" /\ html[i + 1] # ""
               /\ \A j \in 1..(i - 1) : ~(html[j] = "src=" /\ html[j + 1] # ""))
           + 1]
  ELSE NULL

\* the link states of extractMirrorLinks' inner map:
\* "skip" is the null of an anchor without content, "pending" a resolver
\* request in flight, "done" an entry { name, url }; status is the HTTP
\* status of the reply to the request (0: none, or no response)
SkipLink(name) ==
  [st |-> "skip", name |-> name, url |-> NULL, id |-> "none", nonce |-> NULL,
   status |-> 0]

\* the synchronous part of fetchIframeUrl: the payload is decoded and, when
\* that succeeds, the POST is issued; a throw is caught and yields null
FetchStart(name, content, nonce) ==
  LET payload == DecodePayload(content)
  IN IF payload.ok
     THEN [st |-> "pending", name |-> name, url |-> NULL,
           id |-> payload.id, nonce |-> nonce, status |-> 0]
     ELSE [st |-> "done", name |-> name, url |-> NULL, id |-> "none", nonce |-> NULL,
           status |-> 0]

\* the rest of fetchIframeUrl, run when the reply arrives: the URL or null
FetchFinish(raw) ==
  IF ~httpClient(raw).ok THEN NULL
  ELSE IF ~httpClient(raw).data.has THEN NULL
  ELSE MatchSrc(Base64Decode(httpClient(raw).data.data))

\* getNonce once its POST has been answered: data?.data || null, and null
\* when the request threw
getNonce(raw) ==
  IF ~httpClient(raw).ok THEN NULL
  ELSE IF httpClient(raw).data.has /\ httpClient(raw).data.data # ""
  THEN httpClient(raw).data.data
  ELSE NULL

RECURSIVE DownloadsFrom(_, _)
DownloadsFrom(items, acc) ==
  IF items = <<>> THEN acc
  ELSE DownloadsFrom(Tail(items),
         IF Head(items).quality = "" THEN acc
         ELSE SetProp(acc, Head(items).quality, Head(items).links))

\* extractDownloadLinks as a settled promise
extractDownloadLinks(page) ==
  IF page.broken
  THEN [status |-> "rejected", value |-> JObject(NoProps)]
  ELSE [status |-> "fulfilled",
        value |-> JObject(DownloadsFrom(page.downloads, NoProps))]

\* getSettledValue: the values the branches fulfil with are arrays and
\* objects, which are truthy, so `value || defaultValue` is value
getSettledValue(settled, defaultValue) ==
  IF settled.status = "fulfilled" THEN settled.value ELSE defaultValue


(***************************************************************************)
(* The upstream site: the raw replies it can give.                         *)
(***************************************************************************)
TimeoutRaw == [net |-> "timeout", status |-> 0, body |-> <<>>]
ResetRaw == [net |-> "reset", status |-> 0, body |-> <<>>]
StatusRaw(status, body) == [net |-> "ok", status |-> status, body |-> body]

\* a JSON body with a data field, and one without
WithData(data) == [has |-> TRUE, data |-> data]
WithoutData == [has |-> FALSE, data |-> ""]

\* the URL the upstream resolves the payload with this id to
UpstreamUrl(id) ==
  CASE id = "1" -> "u1" [] id = "2" -> "u2" [] id = "3" -> "u3" [] OTHER -> "u0"

\* the replies to a nonce request: a failed connection, a 5xx, a 200 with
\* a nonce, a 200 without data field, a 403 whose JSON body has a data field
NonceRaw(kind) ==
  CASE kind = "reset" -> ResetRaw
    [] kind = "503" -> StatusRaw(503, WithoutData)
    [] kind = "n1" -> StatusRaw(200, WithData("n1"))
    [] kind = "n2" -> StatusRaw(200, WithData("n2"))
    [] kind = "nodata" -> StatusRaw(200, WithoutData)
    [] OTHER -> StatusRaw(403, WithData("denied"))

\* the replies to the resolver request of a link: a failed connection, a
\* 5xx, a body without data field, a fragment without src, a 403 whose
\* JSON body carries a fragment with src, a fragment with src
ResolverRaw(kind, link) ==
  CASE kind = "reset" -> ResetRaw
    [] kind = "503" -> StatusRaw(503, WithoutData)
    [] kind = "403" -> StatusRaw(403, WithData(Base64Encode(
                         <<"<iframe", "src=", UpstreamUrl(link.id), ">">>)))
    [] kind = "nodata" -> StatusRaw(200, WithoutData)
    [] kind = "nosrc" -> StatusRaw(200, WithData(Base64Encode(<<"<iframe", ">">>)))
    [] OTHER -> StatusRaw(200, WithData(Base64Encode(
                  <<"<iframe", "src=", UpstreamUrl(link.id), ">">>)))

(***************************************************************************)
(* The cache (node-cache behind app.locals.cache).  An entry is            *)
(* [value, t]: t is the second at which it expires.                        *)
(***************************************************************************)
\* the mutant of CacheHas: the entry is taken as expired at the very
\* second its TTL ends
CacheHasEarly(c, key, time) == key \in DOMAIN c /\ time < c[key].t

\* cache.get(key): the stored value while it has not expired
CacheHas(c, key, time) == key \in DOMAIN c /\ time <= c[key].t

\* cache.set(key, value, ttl)
CacheSet(c, key, value, ttl, time) ==
  [k \in (DOMAIN c) \cup {key} |->
     IF k = key THEN [value |-> value, t |-> time + ttl] ELSE c[k]]

\* an expired entry is dropped by the get that finds it
CacheDrop(c, key) == [k \in (DOMAIN c) \ {key} |-> c[k]]

\* config.cache.routeCacheTTL[route]
routeCacheTTL(route) ==
  CASE route = "episode" -> TTLEpisode
    [] route = "anime" -> TTLAnime
    [] OTHER -> TTLSearch

(***************************************************************************)
(* State.                                                                  *)
(***************************************************************************)
VARIABLES
  now,     \* the clock, in seconds
  cache,   \* app.locals.cache: key -> [value, t]
  req,     \* the requests in flight, one record per slot
  last,    \* history: per key, the response of the latest request that
           \* wrote the key and the first one written since the key was
           \* last absent, with the times of the writes
  codec,   \* one payload on its way from the site's object to the value
           \* fetchIframeUrl parses: [phase, p, text, content, out]
  thrown   \* one error on its way through withCache's catch block:
           \* [phase, s], s the record of the request that threw it

vars == <<now, cache, req, last, codec, thrown>>

Slots == 1..MaxRequests

NoPage ==
  [title |-> "", iframe |-> NULL, tabs |-> <<>>, downloads |-> <<>>,
   broken |-> FALSE, venser |-> FALSE, list |-> <<>>]
NoNonce == [st |-> "none", status |-> 0, value |-> NULL]
NoData == [t |-> "none"]
NoError == PlainError(<<>>)
NoResp == [status |-> 0, body |-> [success |-> FALSE, error |-> "", param |-> <<>>,
                                   data |-> NoData, timestamp |-> -1]]
PendingBranch == [status |-> "pending", value |-> JArray(<<>>)]

\* history: what is known of the key when a request arrives
NoPrior ==
  [live |-> FALSE, fresh |-> FALSE, first |-> NoResp.body, last |-> NoResp.body]

\* a slot that holds no request
IdleSlot ==
  [pc |-> "idle", route |-> "none", param |-> <<>>, arg |-> <<>>, key |-> <<>>,
   hit |-> FALSE, prior |-> NoPrior, loaded |-> FALSE, inverted |-> FALSE,
   overlap |-> FALSE,
   attempt |-> 0, waits |-> <<>>, replies |-> <<>>, page |-> NoPage,
   nonceA |-> NoNonce, nonceB |-> NoNonce,
   links |-> <<>>, written |-> <<>>, mirrorsByQuality |-> NoProps,
   mirrorLinks |-> PendingBranch, downloadLinks |-> PendingBranch,
   result |-> [kind |-> "none", value |-> NoData, error |-> NoError], resp |-> NoResp,
   sent |-> [get |-> 0, nonce |-> 0, resolve |-> 0]]

\* no payload under way
NoCodec ==
  [phase |-> "idle", p |-> JObj(<<>>), text |-> <<>>, content |-> <<>>,
   out |-> [ok |-> FALSE, v |-> JLit("null")]]

NoThrown == [phase |-> "idle", s |-> IdleSlot]

Init ==
  /\ now = 0
  /\ cache = [k \in {} |-> <<>>]
  /\ req = [r \in Slots |-> IdleSlot]
  /\ last = [k \in {} |-> <<>>]
  /\ codec = NoCodec
  /\ thrown = NoThrown


(***************************************************************************)
(* extractMirrorLinks                                                      *)
(***************************************************************************)
\* the index of the first tab whose target is no valid selector ($(...)
\* throws there), 0 when there is none
FirstBadTab(tabs) ==
  IF \E t \in 1..Len(tabs) : tabs[t].href = "#"
  THEN CHOOSE t \in 1..Len(tabs) :
         tabs[t].href = "#" /\ \A u \in 1..(t - 1) : tabs[u].href # "#"
  ELSE 0

\* the inner map over one tab's anchors: no content gives null, otherwise
\* fetchIframeUrl is called
LinksOfTab(tab, nonce) ==
  [i \in 1..Len(tab.anchors) |->
     IF tab.anchors[i].content = "" THEN SkipLink(tab.anchors[i].name)
     ELSE FetchStart(tab.anchors[i].name, tab.anchors[i].content, nonce)]

\* the each-loop over the tabs; it stops at a tab whose selector throws
LinksOfPage(tabs, nonce) ==
  [t \in 1..Len(tabs) |->
     IF FirstBadTab(tabs) = 0 \/ t < FirstBadTab(tabs)
     THEN LinksOfTab(tabs[t], nonce) ELSE <<>>]

Pending(ls) == \E i \in 1..Len(ls) : ls[i].st = "pending"

RECURSIVE CountPending(_)
CountPending(links) ==
  IF links = <<>> THEN 0
  ELSE Cardinality({i \in 1..Len(Head(links)) : Head(links)[i].st = "pending"})
       + CountPending(Tail(links))

\* the mutant of TierEntries: the entries are collected last anchor first
TierEntriesReversed(ls) ==
  LET kept == SelectSeq(ls, LAMBDA l : l.st # "skip")
  IN [i \in 1..Len(kept) |->
        [name |-> kept[Len(kept) + 1 - i].name, url |-> kept[Len(kept) + 1 - i].url]]

\* the mutant of TierEntries: entries whose url is null are dropped too
TierEntriesResolvedOnly(ls) ==
  [i \in 1..Len(SelectSeq(ls, LAMBDA l : l.st # "skip" /\ l.url # NULL)) |->
     [name |-> SelectSeq(ls, LAMBDA l : l.st # "skip" /\ l.url # NULL)[i].name,
      url |-> SelectSeq(ls, LAMBDA l : l.st # "skip" /\ l.url # NULL)[i].url]]

\* links.filter(Boolean): the entries { name, url } in anchor order, the
\* nulls of anchors without content removed
TierEntries(ls) ==
  [i \in 1..Len(SelectSeq(ls, LAMBDA l : l.st # "skip")) |->
     [name |-> SelectSeq(ls, LAMBDA l : l.st # "skip")[i].name,
      url |-> SelectSeq(ls, LAMBDA l : l.st # "skip")[i].url]]

\* the tabs that wait for no request, in the order their callbacks run.
\* Rank is the number of microtask turns after which
\* Promise.all(linkPromises) of such a tab runs its then-callback: at once
\* for no anchor, later when the anchors returned null, last when a
\* fetchIframeUrl call had to be awaited
ImmediateOrder(links) ==
  LET idx == [t \in 1..Len(links) |-> t]
      Rank(ls) ==
        IF ls = <<>> THEN 0
        ELSE IF \A i \in 1..Len(ls) : ls[i].st = "skip" THEN 1
        ELSE 2
      of(k) == SelectSeq(idx, LAMBDA t : ~Pending(links[t]) /\ Rank(links[t]) = k)
  IN of(0) \o of(1) \o of(2)

RECURSIVE WriteTabs(_, _, _, _)
\* mirrorsByQuality[quality] = links.filter(Boolean), for the tabs of order
WriteTabs(m, order, tabs, links) ==
  IF order = <<>> THEN m
  ELSE WriteTabs(SetProp(m, tabs[Head(order)].quality, TierEntries(links[Head(order)])),
                 Tail(order), tabs, links)

\* what extractMirrorLinks returns when there is no nonce: return []
NoNonceValue(tabs) == JArray(<<>>)

\* await Promise.all(qualityPromises); return mirrorsByQuality
SettleMirrors(s) ==
  IF s.mirrorLinks.status = "pending" /\ Len(s.written) = Len(s.page.tabs)
  THEN [s EXCEPT !.mirrorLinks =
          [status |-> "fulfilled", value |-> JObject(s.mirrorsByQuality)]]
  ELSE s

\* the mutant of MirrorsAfterNonce: the tabs are visited and the resolver
\* requests issued whether or not there is a nonce
MirrorsAfterNonceEager(s, nonce) ==
  LET links == LinksOfPage(s.page.tabs, nonce)
  IN SettleMirrors(
       [s EXCEPT !.links = links,
                 !.sent = [s.sent EXCEPT !.resolve = CountPending(links)],
                 !.written = ImmediateOrder(links),
                 !.mirrorsByQuality =
                    WriteTabs(NoProps, ImmediateOrder(links), s.page.tabs, links)])

\* extractMirrorLinks from the reply to its nonce request onwards
MirrorsAfterNonce(s, nonce) ==
  IF nonce = NULL
  THEN [s EXCEPT !.mirrorLinks =
          [status |-> "fulfilled", value |-> NoNonceValue(s.page.tabs)]]
  ELSE LET links == LinksOfPage(s.page.tabs, nonce)
           sent == [s.sent EXCEPT !.resolve = CountPending(links)]
       IN IF FirstBadTab(s.page.tabs) # 0
          THEN [s EXCEPT !.links = links, !.sent = sent,
                         !.mirrorLinks = [status |-> "rejected", value |-> JArray(<<>>)]]
          ELSE SettleMirrors(
                 [s EXCEPT !.links = links, !.sent = sent,
                           !.written = ImmediateOrder(links),
                           !.mirrorsByQuality =
                              WriteTabs(NoProps, ImmediateOrder(links), s.page.tabs, links)])

\* extractMirrorLinks when the reply for anchor i of tab t has given url
MirrorsAfterReply(s, t, i, url) ==
  LET links == [s.links EXCEPT ![t][i].st = "done", ![t][i].url = url]
  IN IF s.mirrorLinks.status = "pending" /\ ~Pending(links[t])
     THEN SettleMirrors(
            [s EXCEPT !.links = links,
                      !.written = Append(s.written, t),
                      !.mirrorsByQuality =
                         WriteTabs(s.mirrorsByQuality, <<t>>, s.page.tabs, links)])
     ELSE [s EXCEPT !.links = links]

(***************************************************************************)
(* getEpisodeStreaming, getAnimeDetails, searchAnime                       *)
(***************************************************************************)
Return(s, value) ==
  [s EXCEPT !.pc = "returned",
            !.result = [kind |-> "return", value |-> value, error |-> NoError]]

Throw(s, error) ==
  [s EXCEPT !.pc = "returned",
            !.result = [kind |-> "throw", value |-> NoData, error |-> error]]

\* the object getEpisodeStreaming returns
StreamingResult(s) ==
  [title |-> s.page.title,
   iframe |-> s.page.iframe,
   mirrors |-> getSettledValue(s.mirrorLinks, JArray(<<>>)),
   downloads |-> getSettledValue(s.downloadLinks, JObject(NoProps))]

\* the mutant of Join: Promise.all in place of Promise.allSettled, the
\* first rejected branch is rethrown
JoinFailFast(s) ==
  IF s.pc = "assemble" /\ (s.mirrorLinks.status = "rejected"
                            \/ s.downloadLinks.status = "rejected")
  THEN Throw(s, PlainError(<<"branch", "rejected">>))
  ELSE IF s.pc = "assemble" /\ s.nonceA.st = "settled"
          /\ s.mirrorLinks.status # "pending"
  THEN Return(s, StreamingResult(s))
  ELSE s

\* the mutant of Join: the return does not wait for the mirror branch
JoinEarly(s) ==
  IF s.pc = "assemble" /\ s.nonceA.st = "settled"
  THEN Return(s, StreamingResult(s))
  ELSE s

\* await Promise.allSettled([getNonce, extractMirrorLinks,
\* extractDownloadLinks]) and the return that follows it
Join(s) ==
  IF s.pc = "assemble" /\ s.nonceA.st = "settled"
     /\ s.mirrorLinks.status # "pending"
  THEN Return(s, StreamingResult(s))
  ELSE s

\* the mutant of EpisodeAfterPage: the title is not checked before the
\* AJAX calls are issued
EpisodeAfterPageNoCheck(s, page) ==
  [s EXCEPT !.pc = "assemble", !.page = page,
            !.nonceA = [NoNonce EXCEPT !.st = "pending"],
            !.nonceB = [NoNonce EXCEPT !.st = "pending"],
            !.downloadLinks = extractDownloadLinks(page),
            !.sent = [s.sent EXCEPT !.nonce = 2]]

\* getEpisodeStreaming from the page response to the await of allSettled:
\* the title check, then both getNonce calls are issued (the one of the
\* branch list and the one inside extractMirrorLinks) and
\* extractDownloadLinks runs
EpisodeAfterPage(s, page) ==
  IF page.title = ""
  THEN Throw([s EXCEPT !.page = page], PlainError(<<"Episode", "not", "found">>))
  ELSE [s EXCEPT !.pc = "assemble", !.page = page,
                 !.nonceA = [NoNonce EXCEPT !.st = "pending"],
                 !.nonceB = [NoNonce EXCEPT !.st = "pending"],
                 !.downloadLinks = extractDownloadLinks(page),
                 !.sent = [s.sent EXCEPT !.nonce = 2]]

\* getAnimeDetails from the page response on: its extractors make no
\* request
AnimeAfterPage(s, page) ==
  IF ~page.venser
  THEN Throw([s EXCEPT !.page = page],
             PlainError(<<"Anime", "not", "found", "(page", "structure", "mismatch)">>))
  ELSE IF page.title = ""
  THEN Throw([s EXCEPT !.page = page],
             PlainError(<<"Anime", "not", "found", "(title", "could", "not", "be",
                          "extracted)">>))
  ELSE Return([s EXCEPT !.page = page],
              [title |-> page.title, episodes |-> JArray(page.list)])

\* searchAnime from the page response on
SearchAfterPage(s, page) ==
  Return([s EXCEPT !.page = page], JArray(page.list))

\* the scraper of the route, from its page response on
ScraperAfterPage(s, page) ==
  CASE s.route = "episode" -> EpisodeAfterPage([s EXCEPT !.loaded = TRUE], page)
    [] s.route = "anime" -> AnimeAfterPage([s EXCEPT !.loaded = TRUE], page)
    [] OTHER -> SearchAfterPage([s EXCEPT !.loaded = TRUE], page)


(***************************************************************************)
(* routes.js: withCache and the three routes                               *)
(***************************************************************************)
\* the body of a successful response: { success, slug | query, data,
\* timestamp }
SuccessBody(s, time) ==
  [success |-> TRUE, error |-> "", param |-> s.arg, data |-> s.result.value,
   timestamp |-> time]

\* the body withCache's catch block sends
ErrorBody(s, time) ==
  [success |-> FALSE, error |-> handleError(s.result.error).message,
   param |-> <<>>, data |-> NoData, timestamp |-> time]

\* the body of the 400 answer of a route
InvalidBody(route) ==
  [success |-> FALSE,
   error |-> CASE route = "episode" -> "Invalid episode slug"
               [] route = "anime" -> "Invalid anime slug"
               [] OTHER -> "Invalid or short query",
   param |-> <<>>, data |-> NoData, timestamp |-> -1]

\* the mutant of Validate: the parameter is not checked
ValidateNothing(route, param) ==
  [ok |-> TRUE, arg |-> IF route = "search" THEN sanitizeQuery(param) ELSE param]

\* the check at the head of a route: isValidSlug(slug) for /episode and
\* /anime, the sanitized query's length for /search
Validate(route, param) ==
  IF route = "search"
  THEN [ok |-> sanitizeQuery(param) # <<>> /\ Len(sanitizeQuery(param)) >= 2,
        arg |-> sanitizeQuery(param)]
  ELSE [ok |-> isValidSlug(param), arg |-> param]

\* the mutant of StoreResult: whatever is sent is cached, failures too
StoreResultAlways(c, s, time) ==
  CacheSet(c, s.key,
           IF s.result.kind = "return" THEN SuccessBody(s, time) ELSE ErrorBody(s, time),
           routeCacheTTL(s.route), time)

\* the object getEpisodeStreaming returned is degraded: mirrors is the
\* empty array of a failed nonce request, or an entry has the url null
Degraded(data) ==
  \/ data.mirrors = JArray(<<>>)
  \/ \E q \in Keys(data.mirrors) :
       \E i \in 1..Len(data.mirrors.props[q]) : data.mirrors.props[q][i].url = NULL

\* the mutant of StoreResult: a degraded result is not stored
StoreResultFullOnly(c, s, time) ==
  IF s.result.kind = "return" /\ SuccessBody(s, time).success
     /\ ~Degraded(s.result.value)
  THEN CacheSet(c, s.key, SuccessBody(s, time), routeCacheTTL(s.route), time)
  ELSE c

\* the mutant of StoreResult: the first writer wins, a key that is in the
\* cache is not written again
StoreResultFirstWins(c, s, time) ==
  IF s.result.kind = "return" /\ SuccessBody(s, time).success /\ s.key \notin DOMAIN c
  THEN CacheSet(c, s.key, SuccessBody(s, time), routeCacheTTL(s.route), time)
  ELSE c

\* withCache after asyncFunction settled, the cache: only a result with
\* success is stored, a throw leaves the cache alone
StoreResult(c, s, time) ==
  IF s.result.kind = "return" /\ SuccessBody(s, time).success
  THEN CacheSet(c, s.key, SuccessBody(s, time), routeCacheTTL(s.route), time)
  ELSE c

\* withCache after asyncFunction settled, the response: res.json(result),
\* or res.status(errorInfo.status).json(...)
SendResult(s, time) ==
  IF s.result.kind = "return"
  THEN [s EXCEPT !.pc = "done", !.resp = [status |-> 200, body |-> SuccessBody(s, time)]]
  ELSE [s EXCEPT !.pc = "done",
                 !.resp = [status |-> handleError(s.result.error).status,
                           body |-> ErrorBody(s, time)]]

\* history: the key has been written at time with body
Remember(h, key, body, ttl, time) ==
  [k \in (DOMAIN h) \cup {key} |->
     IF k # key THEN h[k]
     ELSE IF key \in DOMAIN h /\ time <= h[key].lastAt + ttl
     THEN [h[key] EXCEPT !.last = body, !.lastAt = time]
     ELSE [first |-> body, firstAt |-> time, last |-> body, lastAt |-> time]]

\* history: what a request arriving at time knows of the key: whether time
\* is within the TTL of the latest write (live) and of the first write
\* (fresh) since the key was absent, and the responses of the two requests
\* that made these writes
Recall(h, key, ttl, time) ==
  IF key \in DOMAIN h /\ time <= h[key].lastAt + ttl
  THEN [live |-> TRUE, fresh |-> time <= h[key].firstAt + ttl,
        first |-> h[key].first, last |-> h[key].last]
  ELSE NoPrior

\* the state after a step of slot r that left its record as s: when the
\* scraper has returned or thrown, withCache's continuation runs in the
\* same turn
Settle(r, s) ==
  IF s.pc = "returned"
  THEN /\ req' = [req EXCEPT ![r] = SendResult(s, now)]
       /\ cache' = StoreResult(cache, s, now)
       /\ last' = IF s.result.kind # "return" THEN last
                  ELSE Remember(last, s.key, SuccessBody(s, now),
                                routeCacheTTL(s.route), now)
  ELSE /\ req' = [req EXCEPT ![r] = s]
       /\ UNCHANGED <<cache, last>>

\* retryRequest(() => httpClient.get(url)): the first attempt is issued
StartScraper(s) ==
  [s EXCEPT !.pc = "fetch", !.attempt = 0, !.sent = [s.sent EXCEPT !.get = 1]]

\* GET /episode/:slug, /anime/:slug, /search?q=: validation, then
\* withCache up to its first await; overlap is history: a request of
\* another slot with the same key has missed the cache and has not been
\* answered yet
Arrive(r, q) ==
  /\ req[r].pc \in {"idle", "done"}
  /\ LET v == Validate(q.route, q.param)
         s0 == [IdleSlot EXCEPT !.route = q.route, !.param = q.param]
         key == generateCacheKey(q.route, v.arg)
         s1 == [s0 EXCEPT !.arg = v.arg, !.key = key,
                          !.prior = Recall(last, key, routeCacheTTL(q.route), now)]
     IN IF ~v.ok
        THEN /\ req' = [req EXCEPT ![r] =
                          [s0 EXCEPT !.pc = "done",
                                     !.resp = [status |-> 400,
                                               body |-> InvalidBody(q.route)]]]
             /\ UNCHANGED <<cache, last>>
        ELSE IF CacheHas(cache, key, now)
        THEN /\ req' = [req EXCEPT ![r] =
                          [s1 EXCEPT !.pc = "done", !.hit = TRUE,
                                     !.resp = [status |-> 200,
                                               body |-> cache[key].value]]]
             /\ UNCHANGED <<cache, last>>
        ELSE /\ req' = [req EXCEPT ![r] =
                          StartScraper([s1 EXCEPT !.overlap =
                            \E o \in Slots \ {r} :
                               /\ req[o].key = key
                               /\ req[o].pc \notin {"idle", "done"}])]
             /\ cache' = IF key \in DOMAIN cache THEN CacheDrop(cache, key) ELSE cache
             /\ UNCHANGED last
  /\ UNCHANGED <<now, codec, thrown>>

\* the reply to the page request of attempt req[r].attempt; replies is the
\* history of the replies to the attempts of the request
PageReply(r, raw) ==
  /\ req[r].pc = "fetch"
  /\ LET s == [req[r] EXCEPT !.replies = Append(@, raw)]
         res == httpClient(raw)
     IN IF res.ok
        THEN Settle(r, ScraperAfterPage(s, res.data))
        ELSE IF retryDecision(res.error, s.attempt, DefaultMaxRetries) = "throw"
        THEN Settle(r, Throw(s, res.error))
        ELSE Settle(r, [s EXCEPT !.pc = "backoff",
                                 !.waits = Append(s.waits, DefaultDelay * (s.attempt + 1))])
  /\ UNCHANGED <<now, codec, thrown>>

\* retryRequest's timer fires: the next attempt is issued
TimerFires(r) ==
  /\ req[r].pc = "backoff"
  /\ req' = [req EXCEPT ![r].pc = "fetch", ![r].attempt = @ + 1, ![r].sent.get = @ + 1]
  /\ UNCHANGED <<now, cache, last, codec, thrown>>

\* the reply to the getNonce call of the allSettled list
NonceAReply(r, raw) ==
  /\ req[r].pc = "assemble"
  /\ req[r].nonceA.st = "pending"
  /\ Settle(r, Join([req[r] EXCEPT !.nonceA =
                       [st |-> "settled", status |-> IF raw.net = "ok" THEN raw.status ELSE 0,
                        value |-> getNonce(raw)]]))
  /\ UNCHANGED <<now, codec, thrown>>

\* the reply to the getNonce call inside extractMirrorLinks
NonceBReply(r, raw) ==
  /\ req[r].pc = "assemble"
  /\ req[r].nonceB.st = "pending"
  /\ Settle(r, Join(MirrorsAfterNonce(
                      [req[r] EXCEPT !.nonceB =
                         [st |-> "settled",
                          status |-> IF raw.net = "ok" THEN raw.status ELSE 0,
                          value |-> getNonce(raw)]],
                      getNonce(raw))))
  /\ UNCHANGED <<now, codec, thrown>>

\* the reply to the fetchIframeUrl request of anchor i of tab t; the
\* upstream answers in one of the ways of kinds; inverted records that a
\* reply has overtaken the request of an earlier anchor of its tab
ResolverReply(r, t, i, kinds) ==
  /\ req[r].pc = "assemble"
  /\ t \in 1..Len(req[r].links)
  /\ i \in 1..Len(req[r].links[t])
  /\ req[r].links[t][i].st = "pending"
  /\ \E kind \in kinds :
       LET raw == ResolverRaw(kind, req[r].links[t][i])
       IN Settle(r, Join(MirrorsAfterReply(
                           [req[r] EXCEPT
                              !.links[t][i].status =
                                 IF raw.net = "ok" THEN raw.status ELSE 0,
                              !.inverted =
                                 @ \/ \E j \in 1..(i - 1) :
                                        req[r].links[t][j].st = "pending"],
                           t, i, FetchFinish(raw))))
  /\ UNCHANGED <<now, codec, thrown>>

\* DELETE /cache/clear: cache.flushAll()
CacheClear ==
  /\ cache # [k \in {} |-> <<>>]
  /\ cache' = [k \in {} |-> <<>>]
  /\ last' = [k \in {} |-> <<>>]
  /\ UNCHANGED <<now, req, codec, thrown>>

\* time passes
Tick ==
  /\ now < MaxTicks * TickSeconds
  /\ now' = now + TickSeconds
  /\ UNCHANGED <<cache, req, last, codec, thrown>>


(***************************************************************************)
(* The pages and requests of the environment.                              *)
(***************************************************************************)
Anchor(name, content) == [name |-> name, content |-> content]
Tab(quality, href, anchors) == [quality |-> quality, href |-> href, anchors |-> anchors]
EpisodePage(title, tabs, broken) ==
  [title |-> title, iframe |-> "player", tabs |-> tabs,
   downloads |-> <<[quality |-> "360p", links |-> <<"d1", "d2">>],
                   [quality |-> "", links |-> <<"d3">>]>>,
   broken |-> broken, venser |-> FALSE, list |-> <<>>]

\* the episode pages of the resolution's specification. Anchor j is named
\* mj and carries its own payload Pj, a JSON scalar, garbage or nothing;
\* the first tab holds at most two anchors and the second at most one;
\* there is no tab, one tier or two; the second label may repeat the
\* first, and a tab's target may be no selector
AssemblyPages ==
  LET AnchorChoices(j) ==
        {Anchor(<<"m", j>>, c) :
           c \in {CASE j = 1 -> "P1" [] j = 2 -> "P2" [] OTHER -> "P3", "S", "G", ""}}
      FirstPanels ==
        {<<>>} \cup {<<a>> : a \in AnchorChoices(1)}
               \cup {<<a, b>> : a \in AnchorChoices(1), b \in AnchorChoices(2)}
      SecondPanels == {<<>>} \cup {<<a>> : a \in AnchorChoices(3)}
      TabLists ==
        {<<>>}
        \cup {<<Tab("360p", "#m360p", p)>> : p \in FirstPanels}
        \cup {<<Tab("360p", "#m360p", p), Tab(q, "#m720p", p2)>> :
                p \in FirstPanels, p2 \in SecondPanels, q \in {"720p", "360p"}}
        \cup {<<Tab("360p", "#m360p", <<Anchor(<<"m", 1>>, "P1")>>),
                Tab("720p", "#", <<>>)>>}
  IN {EpisodePage("Ep 1", tabs, FALSE) : tabs \in TabLists}
     \cup {EpisodePage("Ep 1", <<Tab("360p", "#m360p", <<Anchor(<<"m", 1>>, "P1")>>)>>, TRUE),
           EpisodePage("", <<Tab("360p", "#m360p", <<Anchor(<<"m", 1>>, "P1")>>)>>, FALSE)}

\* the episode pages of the service's specification
ServicePages ==
  {EpisodePage("Ep 1", <<Tab("360p", "#m360p", <<Anchor(<<"m", 1>>, "P1")>>)>>, FALSE)}

\* the pages of /anime/:slug and of /search
RoutePages(route) ==
  CASE route = "episode" -> ServicePages
    [] route = "anime" ->
         {[NoPage EXCEPT !.venser = TRUE, !.title = "Anime 1", !.list = <<"e1">>],
          [NoPage EXCEPT !.venser = TRUE],
          NoPage}
    [] OTHER -> {[NoPage EXCEPT !.list = <<"r1">>]}

\* the replies to a page request: a time-out, a 503, the page with 200 and
\* the not-found page with 404
PageReplies(pages) ==
  {TimeoutRaw, StatusRaw(503, NoPage), StatusRaw(404, NoPage)}
  \cup {StatusRaw(200, p) : p \in pages}

\* the requests of the service's specification
ServiceRequests ==
  {[route |-> "episode", param |-> <<"a">>],
   [route |-> "episode", param |-> <<"a", "!">>]}

\* the requests of the routes' specification; a slug is never empty (the
\* route would not match), a query may be
RouteRequests ==
  {[route |-> rt, param |-> pm] :
     rt \in {"episode", "anime", "search"},
     pm \in {<<"a", "_">>, <<"a", "!">>, <<" ", "a", "<">>,
             <<"a", " ", " ", "b">>}}
  \cup {[route |-> "search", param |-> <<>>]}

\* the bounds on the tabs and anchors of a page
MaxTabs == 2
MaxAnchors == 2

(***************************************************************************)
(* The service: MaxRequests requests in flight, the cache, the clock.      *)
(***************************************************************************)
Next ==
  \/ \E r \in Slots, q \in ServiceRequests : Arrive(r, q)
  \/ \E r \in Slots, raw \in PageReplies(ServicePages) : PageReply(r, raw)
  \/ \E r \in Slots : TimerFires(r)
  \/ \E r \in Slots, k \in {"reset", "n1"} : NonceAReply(r, NonceRaw(k))
  \/ \E r \in Slots, k \in {"reset", "n1"} : NonceBReply(r, NonceRaw(k))
  \/ \E r \in Slots, t \in 1..MaxTabs, i \in 1..MaxAnchors :
        ResolverReply(r, t, i, {"reset", "src"})
  \/ CacheClear
  \/ Tick

Spec == Init /\ [][Next]_vars

(***************************************************************************)
(* One episode resolution: a single request for /episode/a, every page     *)
(* of AssemblyPages and every reply of the upstream.                       *)
(***************************************************************************)
NextEpisode ==
  \/ Arrive(1, [route |-> "episode", param |-> <<"a">>])
  \/ \E raw \in PageReplies(AssemblyPages) : PageReply(1, raw)
  \/ TimerFires(1)
  \/ \E k \in {"reset", "503", "n1", "n2", "nodata", "403"} : NonceAReply(1, NonceRaw(k))
  \/ \E k \in {"reset", "503", "n1", "n2", "nodata", "403"} : NonceBReply(1, NonceRaw(k))
  \/ \E t \in 1..MaxTabs, i \in 1..MaxAnchors :
        ResolverReply(1, t, i, {"reset", "nodata", "nosrc", "src"})

SpecEpisode == Init /\ [][NextEpisode]_vars


(***************************************************************************)
(* The three routes: one request at a time, every request of               *)
(* RouteRequests, the cache.                                               *)
(***************************************************************************)
NextRoutes ==
  \/ \E q \in RouteRequests : Arrive(1, q)
  \/ \E raw \in PageReplies(RoutePages(req[1].route)) : PageReply(1, raw)
  \/ TimerFires(1)
  \/ \E k \in {"reset", "n1"} : NonceAReply(1, NonceRaw(k))
  \/ \E k \in {"reset", "n1"} : NonceBReply(1, NonceRaw(k))
  \/ \E t \in 1..MaxTabs, i \in 1..MaxAnchors :
        ResolverReply(1, t, i, {"reset", "src"})
  \/ CacheClear

SpecRoutes == Init /\ [][NextRoutes]_vars


(***************************************************************************)
(* The mirror resolver: a single request for /episode/a on a page of up    *)
(* to three mirrors, every reply of the upstream to a resolver request,    *)
(* in every order.                                                         *)
(***************************************************************************)
\* the episode pages of the resolver's specification
ResolverPages ==
  {EpisodePage("Ep 1", <<Tab("360p", "#m360p", <<Anchor(<<"m", 1>>, c1), Anchor(<<"m", 2>>, c2)>>)>>,
               FALSE) : c1 \in {"P1", "S", "G"}, c2 \in {"P2", ""}}
  \cup {EpisodePage("Ep 1", <<Tab("360p", "#m360p", <<Anchor(<<"m", 1>>, "P1"),
                                                      Anchor(<<"m", 2>>, "P2")>>),
                              Tab("720p", "#m720p", <<Anchor(<<"m", 3>>, "P3")>>)>>, FALSE)}

NextResolver ==
  \/ Arrive(1, [route |-> "episode", param |-> <<"a">>])
  \/ \E raw \in PageReplies(ResolverPages) : PageReply(1, raw)
  \/ TimerFires(1)
  \/ \E k \in {"reset", "n1"} : NonceAReply(1, NonceRaw(k))
  \/ \E k \in {"reset", "n1", "n2", "403"} : NonceBReply(1, NonceRaw(k))
  \/ \E t \in 1..MaxTabs, i \in 1..MaxAnchors :
        ResolverReply(1, t, i, {"reset", "503", "nodata", "nosrc", "403", "src"})

SpecResolver == Init /\ [][NextResolver]_vars

(***************************************************************************)
(* The payload round trip: the site writes an object as JSON text and      *)
(* encodes it as base64 into data-content; fetchIframeUrl decodes and      *)
(* parses it.                                                              *)
(***************************************************************************)
\* the largest number of members of a payload object
MaxMembers == 2

\* the payload objects: up to MaxMembers members with distinct keys
CodecObjects ==
  LET keys == {<<"i", "d">>, <<"q">>, <<"i">>}
      values ==
        {JNum(0), JNum(120), JStr(<<>>), JStr(<<"a">>), JStr(<<"3", "6", "0", "p", "\"">>),
         JStr(<<"\\", "/">>), JLit("true"), JLit("null"), JArr(<<JNum(1), JStr(<<"b">>)>>),
         JObj(<<[k |-> <<"q">>, v |-> JStr(<<"x", " ">>)]>>)}
      Members(n) == {ms \in [1..n -> [k : keys, v : values]] :
                       \A i, j \in 1..n : ms[i].k = ms[j].k => i = j}
  IN {JObj(ms) : ms \in UNION {Members(n) : n \in 0..MaxMembers}}

\* a payload object of the site
InitCodec ==
  /\ now = 0
  /\ cache = [k \in {} |-> <<>>]
  /\ req = [r \in Slots |-> IdleSlot]
  /\ last = [k \in {} |-> <<>>]
  /\ codec \in {[NoCodec EXCEPT !.phase = "object", !.p = p] : p \in CodecObjects}
  /\ thrown = NoThrown

\* the site writes the object as JSON text
Stringify ==
  /\ codec.phase = "object"
  /\ codec' = [codec EXCEPT !.phase = "text", !.text = JSONstringify(codec.p)]
  /\ UNCHANGED <<now, cache, req, last, thrown>>

\* the site puts the base64 of the text into the data-content attribute
Encode ==
  /\ codec.phase = "text"
  /\ codec' = [codec EXCEPT !.phase = "encoded",
                            !.content = ToBase64(Utf8Encode(codec.text))]
  /\ UNCHANGED <<now, cache, req, last, thrown>>

\* fetchIframeUrl decodes and parses the attribute
Decode ==
  /\ codec.phase = "encoded"
  /\ codec' = [codec EXCEPT !.phase = "decoded", !.out = ParsePayload(codec.content)]
  /\ UNCHANGED <<now, cache, req, last, thrown>>

NextCodec == Stringify \/ Encode \/ Decode

SpecCodec == InitCodec /\ [][NextCodec]_vars


(***************************************************************************)
(* The page fetch: one request for /episode/a whose page request is        *)
(* answered in every way, retryRequest around it.  Every request is        *)
(* answered in the end (the client's timeout) and every timer fires.       *)
(***************************************************************************)
\* the replies to a page request here: those of PageReplies, a failed
\* connection and a 429
PageReplies1 ==
  \E raw \in PageReplies(ServicePages) \cup {ResetRaw, StatusRaw(429, NoPage)} :
     PageReply(1, raw)
NonceAReplies1 == \E k \in {"reset", "n1"} : NonceAReply(1, NonceRaw(k))
NonceBReplies1 == \E k \in {"reset", "n1"} : NonceBReply(1, NonceRaw(k))
ResolverReplies1 ==
  \E t \in 1..MaxTabs, i \in 1..MaxAnchors : ResolverReply(1, t, i, {"reset", "src"})

NextRetry ==
  \/ Arrive(1, [route |-> "episode", param |-> <<"a">>])
  \/ PageReplies1
  \/ TimerFires(1)
  \/ NonceAReplies1
  \/ NonceBReplies1
  \/ ResolverReplies1
  \/ CacheClear

SpecRetry ==
  /\ Init
  /\ [][NextRetry]_vars
  /\ WF_vars(PageReplies1)
  /\ WF_vars(TimerFires(1))
  /\ WF_vars(NonceAReplies1)
  /\ WF_vars(NonceBReplies1)
  /\ WF_vars(ResolverReplies1)

\* the pages of the runs of getEpisodeStreaming to its end: three mirrors in
\* two tiers, and a tier whose first anchor has a payload that does not parse
StreamingPages ==
  {EpisodePage("Ep 1", <<Tab("360p", "#m360p", <<Anchor(<<"m", 1>>, "P1"),
                                                 Anchor(<<"m", 2>>, "P2")>>),
                         Tab("720p", "#m720p", <<Anchor(<<"m", 3>>, "P3")>>)>>, FALSE),
   EpisodePage("Ep 1", <<Tab("360p", "#m360p", <<Anchor(<<"m", 1>>, "G"),
                                                 Anchor(<<"m", 2>>, "P2")>>)>>, FALSE)}

StreamingPageReplies == \E raw \in PageReplies(StreamingPages) : PageReply(1, raw)
StreamingResolverReplies ==
  \E t \in 1..MaxTabs, i \in 1..MaxAnchors :
     ResolverReply(1, t, i, {"reset", "nodata", "src"})

NextStreaming ==
  \/ Arrive(1, [route |-> "episode", param |-> <<"a">>])
  \/ StreamingPageReplies
  \/ TimerFires(1)
  \/ NonceAReplies1
  \/ NonceBReplies1
  \/ StreamingResolverReplies

\* every outbound call settles (the client's timeout settles a request that
\* gets no reply) and every timer fires
SpecStreaming ==
  /\ Init
  /\ [][NextStreaming]_vars
  /\ WF_vars(StreamingPageReplies)
  /\ WF_vars(TimerFires(1))
  /\ WF_vars(NonceAReplies1)
  /\ WF_vars(NonceBReplies1)
  /\ WF_vars(StreamingResolverReplies)

(***************************************************************************)
(* The way of an error through withCache's catch block: asyncFunction has  *)
(* thrown, utils.handleError classifies the error and the response is      *)
(* sent.                                                                   *)
(***************************************************************************)
\* the errors a scraper can let escape: the code, the words of the message
\* and the status of the response the error carries (0: no response)
Errors ==
  [code : {"ECONNABORTED", "ECONNRESET", "ERR_BAD_RESPONSE", "none"},
   message : {<<"timeout", "of", "25000ms", "exceeded">>,
              <<"socket", "hang", "up">>,
              <<"Episode", "not", "found">>,
              <<"Anime", "Not", "Found">>,
              <<"Request", "failed", "with", "status", "code">>,
              <<"Request", "Timeout">>,
              <<"not", "found", "after", "timeout">>},
   status : {0, 302, 400, 404, 429, 503}]

\* asyncFunction of a request for /episode/a has thrown an error
InitErrors ==
  /\ now = 0
  /\ cache = [k \in {} |-> <<>>]
  /\ req = [r \in Slots |-> IdleSlot]
  /\ last = [k \in {} |-> <<>>]
  /\ codec = NoCodec
  /\ thrown \in {[phase |-> "thrown",
                  s |-> Throw([IdleSlot EXCEPT !.route = "episode", !.param = <<"a">>,
                                               !.arg = <<"a">>], e)] : e \in Errors}

\* withCache's catch block
Catch ==
  /\ thrown.phase = "thrown"
  /\ thrown' = [phase |-> "answered", s |-> SendResult(thrown.s, now)]
  /\ UNCHANGED <<now, cache, req, last, codec>>

SpecErrors == InitErrors /\ [][Catch]_vars


(***************************************************************************)
(* Properties.                                                             *)
(***************************************************************************)
\* getEpisodeStreaming of slot r has returned a result
Returned(r) == req[r].route = "episode" /\ req[r].result.kind = "return"

\* the quality labels of the tabs are pairwise distinct (section 3 of the
\* specification: keys are unique per episode page)
DistinctLabels(tabs) ==
  \A t, u \in 1..Len(tabs) : tabs[t].quality = tabs[u].quality => t = u

\* the mirror descriptors of a tab: its anchors that carry a payload
Descriptors(tab) == SelectSeq(tab.anchors, LAMBDA a : a.content # "")

\* the link states of the descriptors of tab t
DescriptorLinks(r, t) == SelectSeq(req[r].links[t], LAMBDA l : l.st # "skip")

\* C1: whenever getEpisodeStreaming returns a result for a page whose tab
\* targets are all selectors, mirrors has a key for every quality label of
\* the page, whatever the nonce request and the resolver requests gave
C1_EveryTierIsAKey ==
  \A r \in Slots :
    (Returned(r) /\ FirstBadTab(req[r].page.tabs) = 0) =>
      \A t \in 1..Len(req[r].page.tabs) :
        req[r].page.tabs[t].quality \in Keys(req[r].result.value.mirrors)

\* C2: when the nonce request of extractMirrorLinks gave null, the
\* function has fulfilled with an object that maps every quality label of
\* the page to the empty sequence
C2_NoNonceGivesEmptyTiers ==
  \A r \in Slots :
    (req[r].nonceB.st = "settled" /\ req[r].nonceB.value = NULL) =>
      /\ req[r].mirrorLinks.status = "fulfilled"
      /\ req[r].mirrorLinks.value.t = "object"
      /\ Keys(req[r].mirrorLinks.value)
           = {req[r].page.tabs[t].quality : t \in 1..Len(req[r].page.tabs)}
      /\ \A q \in Keys(req[r].mirrorLinks.value) :
           req[r].mirrorLinks.value.props[q] = <<>>

\* C3: with a nonce, on a page of distinct labels and valid tab targets,
\* the result holds every label as a key, under it one entry per mirror
\* descriptor of that tab, in the descriptors' order and under their names,
\* and every entry has the url its own resolver call came to: null for a
\* call that failed, the resolved URL for every other
C3_ResolverFailureIsLocal ==
  \A r \in Slots :
    (/\ Returned(r)
     /\ req[r].nonceB.value # NULL
     /\ FirstBadTab(req[r].page.tabs) = 0
     /\ DistinctLabels(req[r].page.tabs)) =>
      /\ req[r].result.value.mirrors.t = "object"
      /\ \A t \in 1..Len(req[r].page.tabs) :
           LET tab == req[r].page.tabs[t]
               mirrors == req[r].result.value.mirrors
           IN /\ tab.quality \in Keys(mirrors)
              /\ Len(mirrors.props[tab.quality]) = Len(Descriptors(tab))
              /\ \A i \in 1..Len(Descriptors(tab)) :
                   /\ mirrors.props[tab.quality][i].name = Descriptors(tab)[i].name
                   /\ mirrors.props[tab.quality][i].url = DescriptorLinks(r, t)[i].url
                   /\ mirrors.props[tab.quality][i].url
                        \in {NULL, UpstreamUrl(PayloadId(Descriptors(tab)[i].content))}

\* C3, witness: a result in which one resolver call failed and its sibling
\* of the same tab and the mirror of the other tab kept their URLs
C3_Witness ==
  /\ Returned(1)
  /\ req[1].nonceB.value = "n1"
  /\ Len(req[1].links) = 2
  /\ Len(req[1].links[1]) = 2
  /\ Len(req[1].links[2]) = 1
  /\ req[1].links[1][1].url = "u1"
  /\ req[1].links[1][2].id = "2"
  /\ req[1].links[1][2].url = NULL
  /\ req[1].links[2][1].url = "u3"
  /\ req[1].page.tabs[2].quality = "720p"

\* the page of the scenario of section 8: 360p with m1 and m2, 720p with
\* m3, the payload of m2 does not decode
ScenarioTabs ==
  <<Tab("360p", "#m360p", <<Anchor(<<"m", 1>>, "P1"), Anchor(<<"m", 2>>, "G")>>),
    Tab("720p", "#m720p", <<Anchor(<<"m", 3>>, "P3")>>)>>

\* C4: on the scenario's page, with a nonce and m1 and m3 resolved, the
\* mirrors are exactly {360p: [{m1, u1}, {m2, null}], 720p: [{m3, u3}]};
\* and on any page with an undecodable payload (and valid tab targets)
\* extractMirrorLinks fulfils and getEpisodeStreaming returns
C4_DecodeFailureIsLocal ==
  \A r \in Slots :
    /\ (/\ req[r].pc = "done"
        /\ req[r].loaded
        /\ req[r].page.tabs = ScenarioTabs
        /\ req[r].nonceB.value # NULL
        /\ req[r].links[1][1].url = "u1"
        /\ req[r].links[2][1].url = "u3") =>
         /\ req[r].result.kind = "return"
         /\ req[r].result.value.mirrors =
              JObject([q \in {"360p", "720p"} |->
                 IF q = "360p"
                 THEN <<[name |-> <<"m", 1>>, url |-> "u1"],
                        [name |-> <<"m", 2>>, url |-> NULL]>>
                 ELSE <<[name |-> <<"m", 3>>, url |-> "u3"]>>])
    /\ (/\ req[r].pc = "done"
        /\ req[r].loaded
        /\ req[r].page.title # ""
        /\ FirstBadTab(req[r].page.tabs) = 0
        /\ \E t \in 1..Len(req[r].page.tabs) :
             \E i \in 1..Len(req[r].page.tabs[t].anchors) :
               req[r].page.tabs[t].anchors[i].content \in GarbageContents) =>
         /\ req[r].mirrorLinks.status = "fulfilled"
         /\ req[r].result.kind = "return"

\* C4, witness: the scenario has run to its result
C4_Witness ==
  /\ req[1].pc = "done"
  /\ req[1].page.tabs = ScenarioTabs
  /\ req[1].nonceB.value = "n1"
  /\ req[1].links[1][1].url = "u1"
  /\ req[1].links[1][2].url = NULL
  /\ req[1].links[2][1].url = "u3"
  /\ Returned(1)

\* C5: once the page had a title, getEpisodeStreaming returns and never
\* throws; title and iframe are the page's; a rejected mirror branch gives
\* mirrors = [], a rejected download branch gives downloads = {}, and a
\* fulfilled branch's field is the value of that branch, whatever became
\* of the other branches and of the nonce branch
C5_BranchesAreIsolated ==
  \A r \in Slots :
    (/\ req[r].pc = "done"
     /\ req[r].route = "episode"
     /\ req[r].loaded
     /\ req[r].page.title # "") =>
      /\ req[r].result.kind = "return"
      /\ req[r].result.value.title = req[r].page.title
      /\ req[r].result.value.iframe = req[r].page.iframe
      /\ req[r].downloadLinks.status = "rejected" =>
           req[r].result.value.downloads = JObject(NoProps)
      /\ req[r].downloadLinks.status = "fulfilled" =>
           req[r].result.value.downloads = req[r].downloadLinks.value
      /\ req[r].mirrorLinks.status = "rejected" =>
           req[r].result.value.mirrors = JArray(<<>>)
      /\ req[r].mirrorLinks.status = "fulfilled" =>
           req[r].result.value.mirrors = req[r].mirrorLinks.value
      /\ req[r].mirrorLinks.status # "pending"
      /\ req[r].downloadLinks.status # "pending"

\* C5, witness: the download branch was rejected, the nonce branch gave
\* null, and the result carries the mirrors of the mirror branch
C5_Witness ==
  /\ Returned(1)
  /\ req[1].downloadLinks.status = "rejected"
  /\ req[1].nonceA.value = NULL
  /\ req[1].result.value.downloads = JObject(NoProps)
  /\ "360p" \in Keys(req[1].result.value.mirrors)
  /\ req[1].result.value.mirrors.props["360p"][1].url = "u1"

\* the request of slot r has been answered without any upstream request
NothingSent(r) == req[r].sent = [get |-> 0, nonce |-> 0, resolve |-> 0]

\* slot r took the step that answered its request
Answers(r) == req[r].pc # "done" /\ req'[r].pc = "done"

\* C6: an episode page without a title makes getEpisodeStreaming throw (no
\* object is returned), GET /episode/:slug answers 404 with success =
\* false and without data, and the step that answers leaves the cache as
\* it was
C6_NoTitleIsNotFound ==
  /\ [](\A r \in Slots :
          (/\ req[r].pc = "done"
           /\ req[r].route = "episode"
           /\ req[r].loaded
           /\ req[r].page.title = "") =>
            /\ req[r].result.kind = "throw"
            /\ req[r].result.value = NoData
            /\ req[r].resp.status = 404
            /\ ~req[r].resp.body.success
            /\ req[r].resp.body.data = NoData)
  /\ [][\A r \in Slots :
          (/\ Answers(r)
           /\ req'[r].route = "episode"
           /\ req'[r].loaded
           /\ req'[r].page.title = "") => cache' = cache]_vars

\* C6, witness: a page without a title has been answered 404 while the
\* other slot's response of the same key is in the cache
C6_Witness ==
  /\ req[1].pc = "done"
  /\ req[1].loaded
  /\ req[1].page.title = ""
  /\ req[1].resp.status = 404
  /\ req[1].key \in DOMAIN cache
  /\ req[2].pc = "done"
  /\ cache[req[1].key].value = req[2].resp.body

\* C7 as stated: a request that arrives within the TTL of the first
\* successful response of its key (no clear since) is answered with that
\* first response and sends nothing upstream
C7_SameAsFirst ==
  \A r \in Slots :
    req[r].prior.fresh =>
      /\ req[r].pc = "done"
      /\ req[r].resp.status = 200
      /\ req[r].resp.body = req[r].prior.first
      /\ NothingSent(r)

\* C7, amended: a request that arrives within the TTL of the latest
\* successful response stored under its key (no clear since) is answered
\* from the cache with that latest response, timestamp included, and sends
\* nothing upstream; the latest is the first one's unless an identical
\* request that overlapped the first completed after it
C7_SameAsLatest ==
  \A r \in Slots :
    req[r].prior.live =>
      /\ req[r].pc = "done"
      /\ req[r].hit
      /\ req[r].resp.status = 200
      /\ req[r].resp.body = req[r].prior.last
      /\ NothingSent(r)

\* C7, witness: a second request, arriving at the last second of the
\* TTL, has been answered with the first one's response
C7_Witness ==
  /\ req[2].pc = "done"
  /\ req[2].hit
  /\ req[2].prior.fresh
  /\ req[2].resp.body = req[2].prior.first
  /\ req[2].resp.body.success
  /\ now = req[2].resp.body.timestamp + TTLEpisode
  /\ NothingSent(2)

\* C8: a request whose scraper threw is answered with a body of success =
\* false under an HTTP error status, the step that answers it leaves the
\* cache as it was, and every value the cache holds is a response with
\* success = true
C8_FailuresAreNotCached ==
  /\ [](/\ \A k \in DOMAIN cache : cache[k].value.success
        /\ \A r \in Slots :
             (req[r].pc = "done" /\ req[r].result.kind = "throw") =>
               /\ ~req[r].resp.body.success
               /\ req[r].resp.body.error # ""
               /\ req[r].resp.status \in 400..599)
  /\ [][\A r \in Slots :
          (Answers(r) /\ req'[r].result.kind = "throw") => cache' = cache]_vars

\* C8, witness: the page request of slot 1 was answered 503 and rethrown,
\* the request has been answered 503, and the cache still holds the
\* response of slot 2 under the same key
C8_Witness ==
  /\ req[1].pc = "done"
  /\ req[1].result.kind = "throw"
  /\ req[1].resp.status = 503
  /\ ~req[1].resp.body.success
  /\ req[1].key \in DOMAIN cache
  /\ req[2].pc = "done"
  /\ req[2].resp.body.success
  /\ cache[req[1].key].value = req[2].resp.body

\* the request of slot r is one the routes must reject: a slug that does
\* not match ^[a-zA-Z0-9\-_]+$, a query shorter than two characters
Malformed(s) ==
  LET MatchesSlugPattern(slug) ==
        Len(slug) >= 1 /\ \A i \in 1..Len(slug) : slug[i] \in SlugChars
  IN \/ s.route \in {"episode", "anime"} /\ ~MatchesSlugPattern(s.param)
     \/ s.route = "search" /\ Len(sanitizeQuery(s.param)) < 2

\* C9: a request with a slug outside the pattern, or with a query that
\* sanitizes to fewer than 2 characters, is answered 400 at once: no
\* upstream request has been sent for it, it is not answered from the
\* cache, and the step that takes it leaves the cache as it was
C9_MalformedIsRejectedFirst ==
  /\ [](\A r \in Slots :
          (req[r].pc # "idle" /\ Malformed(req[r])) =>
            /\ req[r].pc = "done"
            /\ req[r].resp.status = 400
            /\ ~req[r].resp.body.success
            /\ ~req[r].hit
            /\ NothingSent(r))
  /\ [][\A r \in Slots :
          (req'[r] # req[r] /\ Malformed(req'[r])) => cache' = cache]_vars

\* C9, witness: a query that sanitizes to one character has been answered
\* 400 while the cache holds a response
C9_Witness ==
  /\ req[1].pc = "done"
  /\ req[1].route = "search"
  /\ req[1].param = <<" ", "a", "<">>
  /\ req[1].resp.status = 400
  /\ cache # [k \in {} |-> <<>>]

\* C10: a getNonce call whose request met a network error or a status
\* outside 2xx has returned null
C10_NonceNullOnFailure ==
  \A r \in Slots :
    /\ (req[r].nonceA.st = "settled" /\ req[r].nonceA.status \notin 200..299) =>
         req[r].nonceA.value = NULL
    /\ (req[r].nonceB.st = "settled" /\ req[r].nonceB.status \notin 200..299) =>
         req[r].nonceB.value = NULL

\* C11: a fetchIframeUrl call whose request met a network error or was
\* answered with a status outside 2xx, and a call that sent no request,
\* has returned null
C11_ResolverNullOnFailure ==
  \A r \in Slots :
    \A t \in 1..Len(req[r].links) :
      \A i \in 1..Len(req[r].links[t]) :
        (req[r].links[t][i].st = "done"
           /\ req[r].links[t][i].status \notin 200..299) =>
          req[r].links[t][i].url = NULL

\* the links of slot r for which fetchIframeUrl has sent a request
Requested(r) ==
  {<<t, i>> \in (1..MaxTabs) \X (1..MaxAnchors) :
     /\ t <= Len(req[r].links)
     /\ i <= Len(req[r].links[t])
     /\ \/ req[r].links[t][i].st = "pending"
        \/ req[r].links[t][i].st = "done" /\ req[r].links[t][i].id # "none"
        \/ req[r].links[t][i].nonce # NULL}

\* C12: a resolver request exists only once the getNonce call of
\* extractMirrorLinks has returned a nonce, and it carries that nonce;
\* while that call is pending or when it returned null no resolver request
\* has been sent; the step that sends resolver requests is the one in
\* which the nonce arrives
C12_ResolversAfterNonce ==
  /\ [](\A r \in Slots :
          /\ \A l \in Requested(r) :
               /\ req[r].nonceB.st = "settled"
               /\ req[r].nonceB.value # NULL
               /\ req[r].links[l[1]][l[2]].nonce = req[r].nonceB.value
          /\ (req[r].nonceB.st # "settled" \/ req[r].nonceB.value = NULL) =>
               /\ Requested(r) = {}
               /\ req[r].sent.resolve = 0)
  /\ [][\A r \in Slots :
          req'[r].sent.resolve > req[r].sent.resolve =>
            /\ req[r].nonceB.st = "pending"
            /\ req'[r].nonceB.st = "settled"
            /\ req'[r].nonceB.value # NULL]_vars

\* C12, witness: three resolver requests are in flight with the nonce n2
\* of extractMirrorLinks, the nonce call of the branch list having failed
C12_Witness ==
  /\ req[1].pc = "assemble"
  /\ req[1].nonceA.st = "settled"
  /\ req[1].nonceA.value = NULL
  /\ req[1].nonceB.value = "n2"
  /\ req[1].sent.resolve = 3
  /\ Requested(1) = {<<1, 1>>, <<1, 2>>, <<2, 1>>}
  /\ \A l \in Requested(1) :
       /\ req[1].links[l[1]][l[2]].st = "pending"
       /\ req[1].links[l[1]][l[2]].nonce = "n2"


\* C13: in the result of a resolution that had a nonce, the entries of
\* every tier are those of the tab's mirror descriptors in the order of
\* the page, each with the URL of its own resolver call, in whatever order
\* the resolver calls were answered
C13_PageOrderIsKept ==
  \A r \in Slots :
    (/\ Returned(r)
     /\ req[r].nonceB.value # NULL
     /\ FirstBadTab(req[r].page.tabs) = 0
     /\ DistinctLabels(req[r].page.tabs)) =>
      \A t \in 1..Len(req[r].page.tabs) :
        LET entries == req[r].result.value.mirrors.props[req[r].page.tabs[t].quality]
            descriptors == Descriptors(req[r].page.tabs[t])
        IN /\ [i \in 1..Len(entries) |-> entries[i].name]
                = [i \in 1..Len(descriptors) |-> descriptors[i].name]
           /\ \A i \in 1..Len(entries) :
                entries[i].url = DescriptorLinks(r, t)[i].url

\* C13, witness: the second mirror of the first tier was answered before
\* the first, and the result lists m1 before m2, each with its own URL
C13_Witness ==
  /\ Returned(1)
  /\ req[1].inverted
  /\ "360p" \in Keys(req[1].result.value.mirrors)
  /\ req[1].result.value.mirrors.props["360p"] =
       <<[name |-> <<"m", 1>>, url |-> "u1"], [name |-> <<"m", 2>>, url |-> "u2"]>>

\* C14: the value fetchIframeUrl parses from the base64 of the JSON text
\* of an object is an object with the same keys and, under every key, the
\* same value
C14_DecodeInvertsEncode ==
  codec.phase = "decoded" =>
    /\ codec.out.ok
    /\ codec.out.v.t = "obj"
    /\ KeyValueMap(codec.out.v.m) = KeyValueMap(codec.p.m)
    /\ Utf8Decode(BufferFromBase64(codec.content)) = codec.text

\* C14, witness: an object of two members, one a string with a quote in
\* it, whose text needed padding, has been decoded
C14_Witness ==
  /\ codec.phase = "decoded"
  /\ Len(codec.p.m) = 2
  /\ codec.p.m[1].v = JStr(<<"3", "6", "0", "p", "\"">>)
  /\ codec.p.m[2].v = JNum(120)
  /\ codec.content[Len(codec.content)] = "="
  /\ codec.out.ok
  /\ DOMAIN KeyValueMap(codec.out.v.m) = {<<"q">>, <<"i", "d">>}

\* the outcomes of the attempts of slot r's page fetch so far
Attempts(r) == [k \in 1..Len(req[r].replies) |-> httpClient(req[r].replies[k])]

\* C15: retryRequest calls the request function at most 3 times, one call
\* per attempt; every attempt before the last one failed; the waits before
\* the retries are 1000 ms and 2000 ms; a successful attempt is the last
\* one and its response is what the scraper reads; the error thrown is the
\* error of the last attempt; no attempt follows a success; and the fetch
\* comes to an end
C15_RetryIsBounded ==
  /\ [](\A r \in Slots :
          /\ req[r].sent.get <= DefaultMaxRetries + 1
          /\ req[r].pc \in {"fetch", "backoff"} =>
               /\ req[r].sent.get = req[r].attempt + 1
               /\ Len(req[r].replies) = req[r].attempt + (IF req[r].pc = "backoff" THEN 1 ELSE 0)
          /\ req[r].pc \notin {"fetch", "backoff"} => Len(req[r].replies) = req[r].sent.get
          /\ \A k \in 1..Len(req[r].waits) : req[r].waits[k] = DefaultDelay * k
          /\ Len(req[r].waits) = req[r].sent.get - (IF req[r].sent.get = 0 THEN 0 ELSE 1)
               + (IF req[r].pc = "backoff" THEN 1 ELSE 0)
          /\ \A k \in 1..(Len(req[r].replies) - 1) : ~Attempts(r)[k].ok
          /\ req[r].loaded =>
               /\ Attempts(r)[Len(req[r].replies)].ok
               /\ req[r].page = Attempts(r)[Len(req[r].replies)].data
          /\ (req[r].sent.get > 0 /\ ~req[r].loaded /\ req[r].result.kind = "throw") =>
               /\ ~Attempts(r)[Len(req[r].replies)].ok
               /\ req[r].result.error = Attempts(r)[Len(req[r].replies)].error)
  /\ [][\A r \in Slots :
          (req[r].loaded /\ req'[r].loaded) => req'[r].sent.get = req[r].sent.get]_vars
  /\ \A r \in Slots :
       (req[r].pc \in {"fetch", "backoff"}) ~> (req[r].pc \notin {"fetch", "backoff"})

\* C15, witness: two attempts timed out, the waits were 1000 and 2000, and
\* the third attempt brought the page
C15_Witness ==
  /\ req[1].loaded
  /\ req[1].sent.get = 3
  /\ req[1].waits = <<1000, 2000>>
  /\ req[1].replies[1] = TimeoutRaw
  /\ req[1].replies[2] = ResetRaw
  /\ req[1].page.title = "Ep 1"

\* C16: a page fetch that failed with a 5xx status while attempts remained
\* was retried: the error that is thrown with a 5xx status is the error of
\* the last permitted attempt
C16_ServerErrorsAreRetried ==
  \A r \in Slots :
    (/\ req[r].result.kind = "throw"
     /\ ~req[r].loaded
     /\ req[r].result.error.status \in 500..599) =>
      req[r].sent.get = DefaultMaxRetries + 1

\* C17: a resolution that passed the title check has sent one nonce
\* request, and every resolver request carries the nonce that the nonce
\* branch of getEpisodeStreaming obtained
C17_OneSharedNonce ==
  \A r \in Slots :
    (req[r].route = "episode" /\ req[r].loaded /\ req[r].page.title # "") =>
      /\ req[r].sent.nonce = 1
      /\ \A l \in Requested(r) :
           /\ req[r].nonceA.st = "settled"
           /\ req[r].links[l[1]][l[2]].nonce = req[r].nonceA.value

\* C19: a getEpisodeStreaming call that is under way comes to its end;
\* when it has returned, the mirror branch and the download branch are
\* settled, no resolver call is pending and every mirror entry of the
\* result has a URL or null
C19_ResolutionCompletes ==
  /\ [](\A r \in Slots :
          (req[r].pc = "done" /\ req[r].loaded /\ req[r].page.title # "") =>
            /\ req[r].result.kind = "return"
            /\ req[r].mirrorLinks.status \in {"fulfilled", "rejected"}
            /\ req[r].downloadLinks.status \in {"fulfilled", "rejected"}
            /\ FirstBadTab(req[r].page.tabs) = 0 =>
                 \A t \in 1..Len(req[r].links) : ~Pending(req[r].links[t])
            /\ \A q \in Keys(req[r].result.value.mirrors) :
                 \A i \in 1..Len(req[r].result.value.mirrors.props[q]) :
                   req[r].result.value.mirrors.props[q][i].url
                     \in {NULL} \cup {UpstreamUrl(id) : id \in {"1", "2", "3", "none"}})
  /\ \A r \in Slots :
       (req[r].pc \in {"fetch", "backoff", "assemble"}) ~> (req[r].pc = "done")

\* C19, witness: a resolution of three mirrors has returned; the request
\* of the second mirror met a failed connection and its entry is null, the
\* other two have their URLs
C19_Witness ==
  /\ Returned(1)
  /\ Requested(1) = {<<1, 1>>, <<1, 2>>, <<2, 1>>}
  /\ req[1].links[1][1].url = "u1"
  /\ req[1].links[1][2].st = "done"
  /\ req[1].links[1][2].status = 0
  /\ req[1].result.value.mirrors.props["360p"][2].url = NULL
  /\ req[1].result.value.mirrors.props["720p"][1].url = "u3"

\* C18: identical requests are not coalesced. A request that misses the
\* cache while a request with the same key is in flight starts a
\* resolution of its own and is answered with the result of that
\* resolution; every request that returns after a miss writes its response
\* over the entry of its key, so the entry is the response of the request
\* that wrote last: when both requests are done the one entry of the key
\* is the response of one of them, and of the later one
C18_NoSingleFlight ==
  /\ [](\A r \in Slots :
          req[r].overlap =>
            /\ ~req[r].hit
            /\ req[r].sent.get >= 1
            /\ (req[r].pc = "done" /\ req[r].result.kind = "return") =>
                 /\ req[r].resp.status = 200
                 /\ req[r].resp.body.data = req[r].result.value
                 /\ req[r].sent.nonce = 2
                 /\ req[r].loaded)
  /\ [](\A r, o \in Slots :
          (/\ r # o
           /\ req[o].overlap
           /\ req[r].key = req[o].key
           /\ ~req[r].hit
           /\ req[r].pc = "done" /\ req[r].result.kind = "return"
           /\ req[o].pc = "done" /\ req[o].result.kind = "return"
           /\ req[r].key \in DOMAIN cache) =>
            /\ cache[req[r].key].value \in {req[r].resp.body, req[o].resp.body}
            /\ cache[req[r].key].value.timestamp >= req[r].resp.body.timestamp
            /\ cache[req[r].key].value.timestamp >= req[o].resp.body.timestamp)
  /\ [][\A r \in Slots :
          (Answers(r) /\ ~req'[r].hit /\ req'[r].result.kind = "return") =>
            /\ req'[r].key \in DOMAIN cache'
            /\ cache'[req'[r].key].value = req'[r].resp.body]_vars

\* C18, witness: slot 2 missed the cache while the identical request of
\* slot 1 was in flight; both resolved the page for themselves and were
\* answered with different results; slot 1 was answered last, and the
\* cache holds its response
C18_Witness ==
  /\ req[2].overlap
  /\ req[1].key = req[2].key
  /\ req[1].pc = "done" /\ req[2].pc = "done"
  /\ ~req[1].hit /\ ~req[2].hit
  /\ req[1].result.kind = "return" /\ req[2].result.kind = "return"
  /\ req[1].sent.get >= 1 /\ req[2].sent.get >= 1
  /\ req[1].resp.body.data # req[2].resp.body.data
  /\ req[1].resp.body.timestamp > req[2].resp.body.timestamp
  /\ req[1].key \in DOMAIN cache
  /\ cache[req[1].key].value = req[1].resp.body

\* C20: a mirror whose payload decodes to JSON text that is well formed
\* but is not an object (here the number 7) is unresolvable: no resolver
\* request is sent for it and its url is null whatever the upstream answers
C20_ScalarPayloadIsDecodeFailure ==
  \A r \in Slots :
    (req[r].loaded /\ req[r].links # <<>>) =>
      \A t \in 1..Len(req[r].links) :
        \A i \in 1..Len(req[r].links[t]) :
          req[r].page.tabs[t].anchors[i].content \in ScalarContents =>
            /\ req[r].links[t][i].st = "done"
            /\ req[r].links[t][i].status = 0
            /\ req[r].links[t][i].url = NULL

\* C21: an error that escaped the scraper is answered with success = false,
\* no data and a message, under the status 408 when its code is
\* ECONNABORTED or its message contains 'timeout' (whether or not it
\* carries a response), otherwise the status of its response when that is
\* 400 or more, otherwise 404 when its message contains 'not found' in any
\* case, otherwise 500; and the same holds of every request of the service
\* whose scraper threw
C21_ErrorsAreStandardized ==
  LET NotFoundIn(m) ==
        \E i \in 1..(Len(m) - 1) :
           m[i] \in {"not", "Not"} /\ m[i + 1] \in {"found", "Found"}
      TimeoutIn(m) == \E i \in 1..Len(m) : m[i] = "timeout"
      Expected(e) ==
        IF e.code = "ECONNABORTED" \/ TimeoutIn(e.message) THEN 408
        ELSE IF e.status >= 400 THEN e.status
        ELSE IF NotFoundIn(e.message) THEN 404
        ELSE 500
      Standard(s) ==
        /\ s.resp.status = Expected(s.result.error)
        /\ ~s.resp.body.success
        /\ s.resp.body.error # ""
        /\ s.resp.body.data = NoData
  IN /\ thrown.phase = "answered" => Standard(thrown.s)
     /\ \A r \in Slots :
          (req[r].pc = "done" /\ req[r].result.kind = "throw") => Standard(req[r])

\* C21, witness: an error with the code ECONNABORTED that carries a
\* response of status 503 has been answered 408
C21_Witness ==
  /\ thrown.phase = "answered"
  /\ thrown.s.result.error.code = "ECONNABORTED"
  /\ thrown.s.result.error.status = 503
  /\ thrown.s.resp.status = 408
  /\ ~thrown.s.resp.body.success

\* C22: on a page with pairwise distinct quality labels (and selectors as
\* tab targets), with a nonce and an upstream that answers every resolver
\* request with the URL of its payload, the mirrors of the result are a
\* function of the page alone: one key for every label, and under it the
\* tab's mirror descriptors in page order, each with the URL of its payload
\* (null when the payload does not decode), in whatever order the replies
\* arrived and the tiers were written
C22_MirrorsAreOrderIndependent ==
  \A r \in Slots :
    (/\ Returned(r)
     /\ req[r].nonceB.value # NULL
     /\ FirstBadTab(req[r].page.tabs) = 0
     /\ DistinctLabels(req[r].page.tabs)
     /\ \A l \in Requested(r) :
          /\ req[r].links[l[1]][l[2]].status = 200
          /\ req[r].links[l[1]][l[2]].url = UpstreamUrl(req[r].links[l[1]][l[2]].id)) =>
      LET tabs == req[r].page.tabs
          tabOf(q) == CHOOSE t \in 1..Len(tabs) : tabs[t].quality = q
          entry(a) == [name |-> a.name,
                       url |-> IF DecodePayload(a.content).ok
                               THEN UpstreamUrl(DecodePayload(a.content).id)
                               ELSE NULL]
      IN req[r].result.value.mirrors =
           JObject([q \in {tabs[t].quality : t \in 1..Len(tabs)} |->
                      [i \in 1..Len(Descriptors(tabs[tabOf(q)])) |->
                         entry(Descriptors(tabs[tabOf(q)])[i])]])

\* C22, witness: the request of the 720p tier was answered first and the
\* tier written first, the requests of the 360p tier were answered in
\* reverse order, and the result holds both tiers in full
C22_Witness ==
  /\ Returned(1)
  /\ req[1].written = <<2, 1>>
  /\ req[1].inverted
  /\ req[1].result.value.mirrors =
       JObject([q \in {"360p", "720p"} |->
                  IF q = "360p"
                  THEN <<[name |-> <<"m", 1>>, url |-> "u1"],
                         [name |-> <<"m", 2>>, url |-> "u2"]>>
                  ELSE <<[name |-> <<"m", 3>>, url |-> "u3"]>>])

\* C23: the requests that pass validation with the same cache key have the
\* same route and the same validated parameter, and a request answered
\* from the cache gets a response that was computed for its own route and
\* validated parameter
C23_KeyIsCanonical ==
  \A r \in Slots :
    req[r].hit =>
      /\ req[r].resp.body.success
      /\ req[r].resp.body.param = req[r].arg
      /\ \A p \in RouteRequests :
           (/\ Validate(p.route, p.param).ok
            /\ generateCacheKey(p.route, Validate(p.route, p.param).arg) = req[r].key) =>
             /\ p.route = req[r].route
             /\ Validate(p.route, p.param).arg = req[r].arg

\* C24: a getEpisodeStreaming call whose page has no title sends no nonce
\* request and no resolver request, at the time the page is read and ever
\* after; its upstream traffic is the page request, once per attempt
C24_TitleCheckComesFirst ==
  \A r \in Slots :
    (req[r].route = "episode" /\ req[r].loaded /\ req[r].page.title = "") =>
      /\ req[r].pc = "done"
      /\ req[r].result.kind = "throw"
      /\ req[r].sent.nonce = 0
      /\ req[r].sent.resolve = 0
      /\ req[r].nonceA.st = "none"
      /\ req[r].nonceB.st = "none"
      /\ req[r].links = <<>>
      /\ req[r].sent.get = Len(req[r].replies)
      /\ req[r].sent.get = req[r].attempt + 1

\* C24, witness: the page request timed out once, the second attempt
\* brought a page with mirror tabs and without a title, and the call has
\* thrown after two page requests and nothing else
C24_Witness ==
  /\ req[1].pc = "done"
  /\ req[1].loaded
  /\ req[1].page.title = ""
  /\ req[1].page.tabs # <<>>
  /\ req[1].attempt = 1
  /\ req[1].sent = [get |-> 2, nonce |-> 0, resolve |-> 0]

\* C25 as stated: a request that arrives within the TTL of a degraded
\* response written to the cache under its key (no clear since) is served
\* that response and sends nothing upstream
C25_ServedTheDegradedWrite ==
  \A r \in Slots :
    (req[r].prior.fresh /\ Degraded(req[r].prior.first.data)) =>
      /\ req[r].hit
      /\ req[r].resp.body = req[r].prior.first
      /\ NothingSent(r)

\* C25, amended: a degraded result that is returned after a miss is stored
\* under its key with the TTL of the route, as any result is; and a
\* request that arrives within the TTL of the latest response stored under
\* its key (no clear since) is answered 200 from the cache with that
\* response, degraded or not, and sends nothing upstream; a degraded
\* response is the latest until an identical request that had missed the
\* cache before it was written returns and overwrites it
C25_DegradedIsCachedAlike ==
  /\ [](\A r \in Slots :
          (req[r].prior.live /\ Degraded(req[r].prior.last.data)) =>
            /\ req[r].pc = "done"
            /\ req[r].hit
            /\ req[r].resp.status = 200
            /\ req[r].resp.body = req[r].prior.last
            /\ req[r].resp.body.success
            /\ NothingSent(r))
  /\ [][\A r \in Slots :
          (/\ Answers(r)
           /\ ~req'[r].hit
           /\ req'[r].result.kind = "return"
           /\ Degraded(req'[r].result.value)) =>
            /\ req'[r].resp.body.success
            /\ req'[r].key \in DOMAIN cache'
            /\ cache'[req'[r].key] =
                 [value |-> req'[r].resp.body, t |-> now + TTLEpisode]]_vars

\* C25, witness: the nonce request of slot 1 failed and its response with
\* mirrors = [] was stored; slot 2 arrived at the last second of the TTL
\* and was served that response without sending anything
C25_Witness ==
  /\ req[1].pc = "done" /\ ~req[1].hit
  /\ req[1].nonceB.value = NULL
  /\ req[1].resp.body.success
  /\ req[1].resp.body.data.mirrors = JArray(<<>>)
  /\ req[2].pc = "done" /\ req[2].hit
  /\ req[2].prior.live
  /\ req[2].resp.body = req[1].resp.body
  /\ now = req[1].resp.body.timestamp + TTLEpisode
  /\ NothingSent(2)

=============================================================================
